---- MODULE Spec2Model ----
(***************************************************************************)
(* Threshold and weight optimizers, config activation and the signal      *)
(* weight calculator of ai-cash-evo-ml-api.                                *)
(*                                                                         *)
(* The scripts are sequential Python programs that talk to Supabase        *)
(* tables and to JSON files under config/.  Each script is a process with  *)
(* a program counter; every database statement (.execute()) and every file *)
(* write is one atomic step, so that runs of different scripts (and of the *)
(* same script) interleave between statements exactly as two operating     *)
(* system processes sharing one database do.                               *)
(*                                                                         *)
(* Data.  A table of historical rows is kept as a sequence of groups; a    *)
(* group [conf, win, pips, n] stands for n rows with the same              *)
(* label_confidence, trade_outcome and win_pips/loss_pips.  The sweeps sum *)
(* and count rows, so only the multiset of rows matters to them (the row   *)
(* order enters max_drawdown alone, which is printed and never stored).    *)
(*                                                                         *)
(* Numbers.  Python floats are kept in fixed point: win_rate, avg_pips,    *)
(* sharpe and profit_factor in thousandths (Milli), composite scores in    *)
(* ten-thousandths.  float('inf') is the value Inf, which Add and Mul      *)
(* propagate as IEEE arithmetic does.                                      *)
(***************************************************************************)
EXTENDS Integers, Sequences, FiniteSets, TLC

(***************************************************************************)
(* Bounds of the model.                                                    *)
(***************************************************************************)
MaxPips == 2            \* win_pips / loss_pips of a row range over 0..MaxPips
MaxRows == 3            \* rows weight_optimization_history may hold
MaxEvals == 2           \* objective evaluations of one differential_evolution
MaxTf == 3              \* signals in a list of multi-timeframe signals
MaxGenerated == 2       \* signals the edge function generates in one day
MaxDays == 1            \* midnights the clock passes
MaxSignalRows == 3      \* rows of ml_historical_candles an enrichment sees
BatchSize == 2          \* batch_size of the enrichment scripts (100 and 5000)

\* ml_historical_candles: three groups of rows; label_confidence and the row
\* counts each group may have
SlotConf == <<45, 60, 92>>
SlotSizes == <<{0, 90, 100}, {0, 9, 10}, {0, 9, 10}>>
\* signal_performance: confidence and row counts of its three groups
TradeConf == <<30, 45, 60>>
TradeSizes == <<{0, 40, 90, 100}, {0, 9, 10}, {0, 9, 10}>>
\* optimal_threshold values a hand-written config/optimal_signal_config.json holds
ConfigThresholds == {0 - 5, 70, 150}
\* the weighted rows: the five component scores of the rows of each group
SlotComps == <<<<90, 50, 50, 50, 50>>, <<50, 90, 50, 50, 50>>,
               <<80, 80, 80, 80, 80>>>>
\* weight vectors, in tenths, differential_evolution draws from [(0, 1)] * 5
Candidates == <<<<3, 2, 2, 2, 1>>, <<10, 0, 0, 0, 0>>, <<0, 10, 0, 0, 0>>,
                <<5, 5, 0, 0, 0>>, <<10, 10, 10, 10, 10>>, <<0, 0, 0, 0, 0>>>>
\* (sl_mult, tp_mult), in tenths, drawn from [(0.8, 2.5), (1.5, 4.0)]
AtrCandidates == <<<<8, 15>>, <<8, 40>>, <<15, 30>>, <<25, 40>>, <<25, 15>>,
                   <<10, 15>>>>
Runs == {1, 2}                  \* monthly_retrain processes

(***************************************************************************)
(* Program constants.                                                      *)
(***************************************************************************)
MinSignals == 100       \* if len(signals) < 100
MinQualified == 10      \* if len(df_threshold) < 10: continue
PfCap == 10             \* min(profit_factor, 10)
PfSentinel == 999       \* profit_factor if profit_factor != inf else 999
Milli == 10 * 10 * 10    \* fixed-point unit: thousandths
Inf == 2000000000       \* float('inf')

RT_MinTrades == 50      \* if len(trades) < 50
RT_WarnTrades == 100    \* if len(trades) < 100: warnings.append(...)
DefaultThreshold == 70  \* "Using DEFAULT threshold: 70"
WeightThreshold == 70   \* objective_function: threshold = 70
Penalty == 1000         \* return -1000

AtrMinTrades == 100         \* if len(trades) < 100
AtrPenalty == 999999        \* return 999999
AtrDefaultSl == 15          \* "sl_multiplier": 1.5, in tenths
AtrDefaultTp == 30          \* "tp_multiplier": 3.0, in tenths

\* monthly_retrain and professional_backtesting
thresholds == <<50, 55, 60, 65, 70, 75, 80, 85, 90, 92, 95>>
\* optimize_signal_weights_v2: np.arange(50, 95, 5)
V2_thresholds == <<50, 55, 60, 65, 70, 75, 80, 85, 90>>
\* optimize_from_real_trades
RT_thresholds == <<40, 45, 50, 55, 60, 65, 70, 75, 80, 85, 90>>

(***************************************************************************)
(* Arithmetic on the fixed-point floats.                                   *)
(***************************************************************************)
IsInf(x) == x = Inf

Add(a, b) == IF IsInf(a) \/ IsInf(b) THEN Inf ELSE a + b

\* a * k for a finite k > 0
Mul(a, k) == IF IsInf(a) THEN Inf ELSE a * k

Min(a, b) == IF a <= b THEN a ELSE b

Max(a, b) == IF a >= b THEN a ELSE b

RECURSIVE SqrtSearch(_, _, _)
SqrtSearch(x, lo, hi) ==
    IF lo >= hi THEN lo
    ELSE LET mid == (lo + hi + 1) \div 2
         IN  IF mid * mid <= x THEN SqrtSearch(x, mid, hi)
             ELSE SqrtSearch(x, lo, mid - 1)

\* floor of the square root of x, 0 <= x < 2^30
ISqrt(x) == SqrtSearch(x, 0, 32767)

(***************************************************************************)
(* DataFrame operations on a sequence of groups.                           *)
(***************************************************************************)
RECURSIVE SumInts(_)
SumInts(s) == IF s = <<>> THEN 0 ELSE Head(s) + SumInts(Tail(s))

\* sum(f(row) for row in df)
SumSeq(df, f(_)) == SumInts([i \in 1..Len(df) |-> f(df[i])])

\* len(df)
NRows(df) == LET cnt(g) == g.n IN SumSeq(df, cnt)

NotEnough_Below50(signals) == NRows(signals) < MinSignals - 50

\* if len(signals) < 100
NotEnough(signals) == NRows(signals) < MinSignals

\* the value appended to pip_list for one row of the group
RowPips(g) == IF g.win THEN g.pips ELSE 0 - g.pips

FilterConf_Reversed(df, threshold) ==
    LET keep(g) == g.conf <= threshold IN SelectSeq(df, keep)

\* df[df['label_confidence'] >= threshold]
FilterConf(df, threshold) ==
    LET keep(g) == g.conf >= threshold IN SelectSeq(df, keep)

WinCount(df) == LET w(g) == IF g.win THEN g.n ELSE 0 IN SumSeq(df, w)

TotalPips(df) == LET p(g) == g.n * RowPips(g) IN SumSeq(df, p)

SumSquares(df) == LET q(g) == g.n * g.pips * g.pips IN SumSeq(df, q)

GrossProfit(df) ==
    LET p(g) == IF RowPips(g) > 0 THEN g.n * g.pips ELSE 0 IN SumSeq(df, p)

GrossLoss(df) ==
    LET p(g) == IF RowPips(g) < 0 THEN g.n * g.pips ELSE 0 IN SumSeq(df, p)

\* (win_count / total_trades) * 100, in thousandths
WinRate(df) ==
    IF NRows(df) > 0 THEN (WinCount(df) * 100 * Milli) \div NRows(df) ELSE 0

\* total_pips / total_trades, in thousandths
AvgPips(df) ==
    IF NRows(df) > 0 THEN (TotalPips(df) * Milli) \div NRows(df) ELSE 0

\* np.mean(pip_list) / np.std(pip_list), in thousandths: with n rows, sum S and
\* sum of squares Q the population deviation is sqrt(n*Q - S*S) / n, so the
\* ratio is S / sqrt(n*Q - S*S); 0 when len(pip_list) <= 1 or the deviation is 0
Sharpe(df) ==
    LET n == NRows(df)
        S == TotalPips(df)
        D == n * SumSquares(df) - S * S
    IN  IF n > 1 /\ D > 0 THEN (S * Milli * 10) \div ISqrt(D * 100) ELSE 0

\* gross_profit / gross_loss if gross_loss > 0 else float('inf'), in thousandths
ProfitFactor(df) ==
    IF GrossLoss(df) > 0 THEN (GrossProfit(df) * Milli) \div GrossLoss(df)
    ELSE Inf

\* max(results, key=lambda x: x['score']): the first entry no later entry beats
RECURSIVE MaxFrom(_, _)
MaxFrom(best, rest) ==
    IF rest = <<>> THEN best
    ELSE MaxFrom(IF Head(rest).score > best.score THEN Head(rest) ELSE best,
                 Tail(rest))

RECURSIVE LastMaxFrom(_, _)
LastMaxFrom(best, rest) ==
    IF rest = <<>> THEN best
    ELSE LastMaxFrom(IF Head(rest).score >= best.score THEN Head(rest) ELSE best,
                     Tail(rest))

PyMax_LastMax(results) == LastMaxFrom(Head(results), Tail(results))

PyMax(results) == MaxFrom(Head(results), Tail(results))

\* the concatenation of a sequence of sequences
RECURSIVE Flatten(_)
Flatten(ss) == IF ss = <<>> THEN <<>> ELSE Head(ss) \o Flatten(Tail(ss))

(***************************************************************************)
(* State.                                                                  *)
(***************************************************************************)
VARIABLES
    candles,             \* table ml_historical_candles (labeled rows)
    signal_performance,  \* table signal_performance (closed trades)
    weighted,            \* the candles rows that carry weight_components
    history,             \* table weight_optimization_history, in insert order
    optimal_signal_config,          \* config/optimal_signal_config.json
    real_trades_optimization,       \* config/real_trades_optimization.json
    professional_backtest_results,  \* config/professional_backtest_results.json
    optimal_weights,                \* config/optimal_weights.json
    mr,                  \* the monthly_retrain processes
    v2,                  \* optimize_signal_weights_v2
    pb,                  \* professional_backtesting
    rt,                  \* optimize_from_real_trades
    pop,                 \* populate_initial_optimization
    osw,                 \* optimize_signal_weights
    observed,            \* what the last reader of the history table saw
    population,          \* the vectors differential_evolution(seed=42) draws
    optimized_atr_multipliers,      \* config/optimized_atr_multipliers.json
    atr,                 \* optimize_atr_multipliers
    call,                \* a call of a SignalWeightCalculator method
    ret,                 \* what the call returned or raised
    calc,                \* the SignalWeightCalculator instance (self)
    seen,                \* the calls a caller made and what each returned
    gen,                 \* the AutoSignalGenerator instance and its loop
    oanda,               \* the trades of signal_performance, open and closed
    clock,               \* datetime.now(): the day, and whether it is 8-16 UTC
    signal_rows,         \* table ml_historical_candles (weight columns)
    enrich               \* an enrichment script

vars == <<candles, signal_performance, weighted, history,
          optimal_signal_config, real_trades_optimization,
          professional_backtest_results, optimal_weights,
          mr, v2, pb, rt, pop, osw, observed,
          population, optimized_atr_multipliers, atr, call, ret, calc, seen,
          gen, oanda, clock, signal_rows, enrich>>

\* what a script reads: the tables, and the stream of the seeded generator
tables == <<candles, signal_performance, weighted, population>>
files == <<optimal_signal_config, real_trades_optimization,
           professional_backtest_results, optimal_weights,
           optimized_atr_multipliers>>
\* the calculator is a library class: no optimizer script calls it
calculator == <<call, ret, calc, seen>>
generator == <<gen, oanda, clock>>
enrichment == <<signal_rows, enrich>>

\* a script that has not been started
\* idx: loop iterations done; updated: the rows the last update matched
Idle == [pc |-> "idle", idx |-> 0, results |-> <<>>, optimal |-> <<>>,
         updated |-> 0, exit |-> "none", said |-> {}]

\* sys.exit(code) after printing the messages msgs
Exit(p, code, msgs) == [p EXCEPT !.pc = "done", !.exit = code, !.said = msgs]

\* the rows of weight_optimization_history with active = true
ActiveRows == {i \in 1..Len(history) : history[i].active}

(***************************************************************************)
(* monthly_retrain.py                                                      *)
(***************************************************************************)
\* one pass of the loop body for one threshold: the entry appended to
\* results, or nothing when fewer than 10 rows qualify
MR_Entry(df, threshold) ==
    LET df_threshold == FilterConf(df, threshold)
        profit_factor == ProfitFactor(df_threshold)
        score == WinRate(df_threshold) * 4 + AvgPips(df_threshold) * 3
                 + Sharpe(df_threshold) * 50
                 + Min(profit_factor, PfCap * Milli) * 20
    IN  IF NRows(df_threshold) < MinQualified THEN <<>>
        ELSE <<[threshold |-> threshold,
                total_trades |-> NRows(df_threshold),
                win_rate |-> WinRate(df_threshold),
                avg_pips |-> AvgPips(df_threshold),
                sharpe_ratio |-> Sharpe(df_threshold),
                profit_factor |-> IF IsInf(profit_factor)
                                  THEN PfSentinel * Milli ELSE profit_factor,
                score |-> score]>>

\* lines 41-56: load the signals; fewer than 100 ends the run with exit(0)
MR_Load(r) ==
    /\ mr[r].pc \in {"idle", "done"}
    /\ mr' = [mr EXCEPT ![r] =
                IF NotEnough(candles)
                THEN Exit(Idle, "exit(0)", {"not_enough_data", "existing_threshold"})
                ELSE [Idle EXCEPT !.pc = "sweep"]]
    /\ UNCHANGED <<tables, files, history, v2, pb, rt, pop, osw,
                   observed, atr, calculator,
                   generator, enrichment>>

\* lines 64-124: the threshold loop, in the order of the list
MR_Results(df) ==
    Flatten([i \in 1..Len(thresholds) |-> MR_Entry(df, thresholds[i])])

\* lines 64-127: the sweep and max(results); max() of an empty list raises
\* ValueError, which nothing catches
MR_Sweep(r) ==
    /\ mr[r].pc = "sweep"
    /\ LET results == MR_Results(candles)
       IN  mr' = [mr EXCEPT ![r] =
                    IF results = <<>>
                    THEN Exit([@ EXCEPT !.idx = Len(thresholds)], "ValueError", {})
                    ELSE [@ EXCEPT !.pc = "deactivate",
                                   !.idx = Len(thresholds),
                                   !.results = results,
                                   !.optimal = <<PyMax(results)>>]]
    /\ UNCHANGED <<tables, files, history, v2, pb, rt, pop, osw,
                   observed, atr, calculator,
                   generator, enrichment>>

\* lines 179-182: update({'active': False}).eq('active', True)
MR_Deactivate(r) ==
    /\ mr[r].pc = "deactivate"
    /\ history' = [i \in 1..Len(history) |-> [history[i] EXCEPT !.active = FALSE]]
    /\ mr' = [mr EXCEPT ![r].pc = "insert",
                        ![r].updated = Cardinality(ActiveRows)]
    /\ UNCHANGED <<tables, files, v2, pb, rt, pop, osw,
                   observed, atr, calculator,
                   generator, enrichment>>

\* lines 185-212: insert the new record with active = True
MR_Insert(r) ==
    /\ mr[r].pc = "insert"
    /\ history' = Append(history,
                         [optimal_threshold |-> mr[r].optimal[1].threshold,
                          active |-> TRUE])
    /\ mr' = [mr EXCEPT ![r].pc = "verify"]
    /\ UNCHANGED <<tables, files, v2, pb, rt, pop, osw,
                   observed, atr, calculator,
                   generator, enrichment>>

\* lines 185-212: insert(record).execute() raises (the request fails or the
\* database rejects the row); nothing catches it and the script ends
MR_InsertFails(r) ==
    /\ mr[r].pc = "insert"
    /\ mr' = [mr EXCEPT ![r] = Exit(@, "APIError", {})]
    /\ UNCHANGED <<tables, files, history, v2, pb, rt, pop, osw,
                   observed, atr, calculator,
                   generator, enrichment>>

\* lines 217-221: rpc('get_optimal_threshold') is printed; the script ends
MR_Verify(r) ==
    /\ mr[r].pc = "verify"
    /\ mr' = [mr EXCEPT ![r] = Exit(@, "end", {"saved"})]
    /\ UNCHANGED <<tables, files, history, v2, pb, rt, pop, osw,
                   observed, atr, calculator,
                   generator, enrichment>>

(***************************************************************************)
(* optimize_signal_weights_v2.py                                           *)
(***************************************************************************)
V2_Entry(data, threshold) ==
    LET qualified == FilterConf(data, threshold)
    IN  IF NRows(qualified) < MinQualified THEN <<>>
        ELSE <<[threshold |-> threshold,
                signals |-> NRows(qualified),
                winrate |-> WinRate(qualified),
                avg_pips |-> AvgPips(qualified),
                score |-> WinRate(qualified) * 6 + AvgPips(qualified) * 4]>>

\* lines 37-51: fewer than 100 signals ends the run with exit(1)
V2_Load ==
    /\ v2.pc \in {"idle", "done"}
    /\ v2' = IF NotEnough(candles)
             THEN Exit(Idle, "exit(1)", {"not_enough_data"})
             ELSE [Idle EXCEPT !.pc = "sweep"]
    /\ UNCHANGED <<tables, files, history, mr, pb, rt, pop, osw,
                   observed, atr, calculator,
                   generator, enrichment>>

V2_Results(data) ==
    Flatten([i \in 1..Len(V2_thresholds) |-> V2_Entry(data, V2_thresholds[i])])

\* lines 83-113: the sweep and max(results)
V2_Sweep ==
    /\ v2.pc = "sweep"
    /\ LET results == V2_Results(candles)
       IN  v2' = IF results = <<>>
                 THEN Exit([v2 EXCEPT !.idx = Len(V2_thresholds)], "ValueError", {})
                 ELSE [v2 EXCEPT !.pc = "save",
                                 !.idx = Len(V2_thresholds),
                                 !.results = results,
                                 !.optimal = <<PyMax(results)>>]
    /\ UNCHANGED <<tables, files, history, mr, pb, rt, pop, osw,
                   observed, atr, calculator,
                   generator, enrichment>>

\* lines 158-196: json.dump to config/optimal_signal_config.json
V2_Save ==
    /\ v2.pc = "save"
    /\ optimal_signal_config' =
          <<[optimal_threshold |-> v2.optimal[1].threshold]>>
    /\ v2' = Exit(v2, "end", {"saved"})
    /\ UNCHANGED <<tables, real_trades_optimization,
                   professional_backtest_results, optimal_weights,
                   optimized_atr_multipliers, history, mr, pb, rt, pop, osw,
                   observed, atr, calculator,
                   generator, enrichment>>

(***************************************************************************)
(* professional_backtesting.py                                             *)
(***************************************************************************)
PB_Entry(df, threshold) ==
    LET df_threshold == FilterConf(df, threshold)
        profit_factor == ProfitFactor(df_threshold)
    IN  IF NRows(df_threshold) < MinQualified THEN <<>>
        ELSE <<[threshold |-> threshold,
                total_trades |-> NRows(df_threshold),
                win_rate |-> WinRate(df_threshold),
                avg_pips |-> AvgPips(df_threshold),
                sharpe_ratio |-> Sharpe(df_threshold),
                profit_factor |-> profit_factor,
                score |-> Add(WinRate(df_threshold) * 4
                              + AvgPips(df_threshold) * 3
                              + Sharpe(df_threshold) * 50,
                              Mul(profit_factor, 50))]>>

\* lines 38-53
PB_Load ==
    /\ pb.pc \in {"idle", "done"}
    /\ pb' = IF NotEnough(candles)
             THEN Exit(Idle, "exit(1)", {"not_enough_data"})
             ELSE [Idle EXCEPT !.pc = "sweep"]
    /\ UNCHANGED <<tables, files, history, mr, v2, rt, pop, osw,
                   observed, atr, calculator,
                   generator, enrichment>>

PB_Results(df) ==
    Flatten([i \in 1..Len(thresholds) |-> PB_Entry(df, thresholds[i])])

\* lines 138-215: the sweep and max(results)
PB_Sweep ==
    /\ pb.pc = "sweep"
    /\ LET results == PB_Results(candles)
       IN  pb' = IF results = <<>>
                 THEN Exit([pb EXCEPT !.idx = Len(thresholds)], "ValueError", {})
                 ELSE [pb EXCEPT !.pc = "save",
                                 !.idx = Len(thresholds),
                                 !.results = results,
                                 !.optimal = <<PyMax(results)>>]
    /\ UNCHANGED <<tables, files, history, mr, v2, rt, pop, osw,
                   observed, atr, calculator,
                   generator, enrichment>>

\* lines 265-311: json.dump to config/professional_backtest_results.json
PB_Save ==
    /\ pb.pc = "save"
    /\ professional_backtest_results' =
          <<[optimal_threshold |-> pb.optimal[1].threshold,
             profit_factor |-> pb.optimal[1].profit_factor]>>
    /\ pb' = Exit(pb, "end", {"saved"})
    /\ UNCHANGED <<tables, optimal_signal_config, real_trades_optimization,
                   optimal_weights, optimized_atr_multipliers,
                   history, mr, v2, rt, pop, osw, observed, atr, calculator,
                   generator, enrichment>>

(***************************************************************************)
(* optimize_from_real_trades.py                                            *)
(***************************************************************************)
\* score = win_rate * 0.7 + (len(df_thresh) / len(df)) * 30
RT_Entry(df, threshold) ==
    LET df_thresh == FilterConf(df, threshold)
    IN  IF NRows(df_thresh) < MinQualified THEN <<>>
        ELSE <<[threshold |-> threshold,
                trades |-> NRows(df_thresh),
                wins |-> WinCount(df_thresh),
                win_rate |-> WinRate(df_thresh),
                score |-> WinRate(df_thresh) * 7
                          + (NRows(df_thresh) * 30 * Milli * 10) \div NRows(df)]>>

\* lines 37-56: fewer than 50 trades ends the run with exit(0)
RT_Load ==
    /\ rt.pc \in {"idle", "done"}
    /\ rt' = IF NRows(signal_performance) < RT_MinTrades
             THEN Exit(Idle, "exit(0)", {"not_enough_data", "default_threshold"})
             ELSE [Idle EXCEPT !.pc = "sweep"]
    /\ UNCHANGED <<tables, files, history, mr, v2, pb, pop, osw,
                   observed, atr, calculator,
                   generator, enrichment>>

RT_Results(df) ==
    Flatten([i \in 1..Len(RT_thresholds) |-> RT_Entry(df, RT_thresholds[i])])

\* lines 80-116: the sweep; no results ends the run with exit(0)
RT_Sweep ==
    /\ rt.pc = "sweep"
    /\ LET results == RT_Results(signal_performance)
       IN  rt' = IF results = <<>>
                 THEN Exit([rt EXCEPT !.idx = Len(RT_thresholds)], "exit(0)",
                           {"no_valid_thresholds", "default_threshold"})
                 ELSE [rt EXCEPT !.pc = "save",
                                 !.idx = Len(RT_thresholds),
                                 !.results = results,
                                 !.optimal = <<PyMax(results)>>]
    /\ UNCHANGED <<tables, files, history, mr, v2, pb, pop, osw,
                   observed, atr, calculator,
                   generator, enrichment>>

\* lines 142-178: json.dump to config/real_trades_optimization.json
RT_Save ==
    /\ rt.pc = "save"
    /\ real_trades_optimization' =
          <<[optimal_threshold |-> rt.optimal[1].threshold,
             limited_sample |-> NRows(signal_performance) < RT_WarnTrades]>>
    /\ rt' = Exit(rt, "end", {"saved"})
    /\ UNCHANGED <<tables, optimal_signal_config,
                   professional_backtest_results, optimal_weights,
                   optimized_atr_multipliers, history, mr, v2, pb, pop, osw,
                   observed, atr, calculator,
                   generator, enrichment>>

(***************************************************************************)
(* populate_initial_optimization.py                                        *)
(***************************************************************************)
\* lines 27-29: open() of a missing file raises FileNotFoundError
Pop_Load ==
    /\ pop.pc \in {"idle", "done"}
    /\ pop' = IF optimal_signal_config = <<>>
              THEN Exit(Idle, "FileNotFoundError", {})
              ELSE [Idle EXCEPT !.pc = "insert",
                                !.optimal = optimal_signal_config]
    /\ UNCHANGED <<tables, files, history, mr, v2, pb, rt, osw,
                   observed, atr, calculator,
                   generator, enrichment>>

\* lines 34-52: insert the record with active = True
Pop_Insert ==
    /\ pop.pc = "insert"
    /\ history' = Append(history,
                         [optimal_threshold |-> pop.optimal[1].optimal_threshold,
                          active |-> TRUE])
    /\ pop' = [pop EXCEPT !.pc = "verify"]
    /\ UNCHANGED <<tables, files, mr, v2, pb, rt, osw,
                   observed, atr, calculator,
                   generator, enrichment>>

\* lines 54-61
Pop_Verify ==
    /\ pop.pc = "verify"
    /\ pop' = Exit(pop, "end", {"saved"})
    /\ UNCHANGED <<tables, files, history, mr, v2, pb, rt, osw,
                   observed, atr, calculator,
                   generator, enrichment>>

(***************************************************************************)
(* A reader of weight_optimization_history (any select on active = true,   *)
(* as the scripts' rpc('get_optimal_threshold') does).                     *)
(***************************************************************************)
Reader ==
    /\ observed' = Cardinality(ActiveRows)
    /\ UNCHANGED <<tables, files, history, mr, v2, pb, rt, pop,
                   osw, atr, calculator,
                   generator, enrichment>>

(***************************************************************************)
(* optimize_signal_weights.py                                              *)
(***************************************************************************)
\* calculate_signal_weight(components, weights), in tenths
calculate_signal_weight(components, weights) ==
    SumInts([i \in 1..5 |-> components.comps[i] * weights[i]])

\* the signals with weight >= threshold under the weights
QualifiedSignals(data, weights) ==
    LET keep(d) == calculate_signal_weight(d, weights) >= WeightThreshold * 10
    IN  SelectSeq(data, keep)

\* lines 116-141, in ten-thousandths
objective_function(data, weights) ==
    LET qualified_signals == QualifiedSignals(data, weights)
    IN  IF NRows(qualified_signals) < MinQualified
        THEN 0 - Penalty * Milli * 10
        ELSE 0 - (WinRate(qualified_signals) * 7 + AvgPips(qualified_signals) * 3)

\* lines 37-52: fewer than 100 signals ends the run with exit(1)
OSW_Load ==
    /\ osw.pc \in {"idle", "done"}
    /\ osw' = IF NotEnough(weighted)
              THEN Exit(Idle, "exit(1)", {"not_enough_data"})
              ELSE [Idle EXCEPT !.pc = "search"]
    /\ UNCHANGED <<tables, files, history, mr, v2, pb, rt, pop,
                   observed, atr, calculator,
                   generator, enrichment>>

\* lines 155-167: differential_evolution evaluates the objective on the next
\* vector its seeded generator gives, as drawn from the box (nothing puts it
\* on the simplex first), and keeps the vector when no earlier one was lower
OSW_Evaluate ==
    /\ osw.pc = "search"
    /\ osw.idx < Len(population)
    /\ LET x == Candidates[population[osw.idx + 1]]
       IN LET fun == objective_function(weighted, x)
              better == osw.optimal = <<>> \/ fun <= osw.optimal[1].fun
          IN  osw' = [osw EXCEPT !.idx = @ + 1,
                                 !.results = Append(@, [x |-> x, fun |-> fun]),
                                 !.optimal = IF better
                                             THEN <<[x |-> x, fun |-> fun]>>
                                             ELSE @]
    /\ UNCHANGED <<tables, files, history, mr, v2, pb, rt, pop,
                   observed, atr, calculator,
                   generator, enrichment>>

\* lines 169-233: when the search has ended, result.x is normalised
\* (x / x.sum(), kept as the vector and its sum), tested at threshold 70 and
\* written to config/optimal_weights.json
OSW_Save ==
    /\ osw.pc = "search"
    /\ osw.idx = Len(population)
    /\ LET x == osw.optimal[1].x
           total == SumInts(x)
           qualified == IF total = 0 THEN <<>>
                        ELSE LET keep(d) == calculate_signal_weight(d, x)
                                            >= WeightThreshold * total
                             IN  SelectSeq(weighted, keep)
       IN  optimal_weights' = <<[optimal_weights |-> x, sum |-> total,
                                 qualified_signals |-> NRows(qualified)]>>
    /\ osw' = Exit(osw, "end", {"saved"})
    /\ UNCHANGED <<tables, optimal_signal_config, real_trades_optimization,
                   professional_backtest_results, optimized_atr_multipliers,
                   history, mr, v2, pb, rt, pop,
                   observed, atr, calculator,
                   generator, enrichment>>

(***************************************************************************)
(* optimize_atr_multipliers.py                                             *)
(*                                                                         *)
(* The trades are those of one symbol, all intraday and with stop_loss and *)
(* take_profit, so that the 100 trades the script asks for are also the    *)
(* 20 it asks of a symbol.  Multipliers are in tenths, win_prob_adjustment *)
(* and the values of np.random.random() in thousandths, the objective in   *)
(* thousandths.                                                            *)
(***************************************************************************)
\* the values np.random.random() returns: the half-open interval [0.0, 1.0)
RandomValues == 0..(Milli - 1)

win_prob_adjustment_Floor(tp_mult) == Max(700, Min(1300, 0))

\* lines 183-184: tp_ratio = tp_mult / 2.0;
\* win_prob_adjustment = max(0.7, min(1.3, 2.0 / tp_ratio))
win_prob_adjustment(tp_mult) ==
    Max(700, Min(1300, (2 * 2 * 10 * Milli) \div tp_mult))

\* lines 186-189: the numbers of won trades, out of n, that a pass of the
\* loop may count: each won trade draws one random value and is counted when
\* the value is below the adjustment
Passing(n, adjustment) ==
    LET counted == \E u \in RandomValues : u < adjustment
        skipped == \E u \in RandomValues : ~(u < adjustment)
    IN  {k \in 0..n : (k > 0 => counted) /\ (k < n => skipped)}

\* lines 149-202, with wins the number of trades the loop counted
objective(symbol_trades, multipliers, wins) ==
    LET sl_mult == multipliers[1]
        tp_mult == multipliers[2]
        total == NRows(symbol_trades)
        win_rate == IF total > 0 THEN (wins * 100 * 100) \div total ELSE 0
        rr == (tp_mult * 100) \div sl_mult
    IN  IF tp_mult * 10 < 15 * sl_mult THEN AtrPenalty * Milli
        ELSE 0 - (win_rate * 6 + Min(rr, 300) * 100)

\* lines 42-83: fewer than 100 trades: the default config is to be written
ATR_Load ==
    /\ atr.pc \in {"idle", "done"}
    /\ atr' = IF NRows(signal_performance) < AtrMinTrades
              THEN [Idle EXCEPT !.pc = "default",
                                !.said = {"not_enough_data",
                                          "default_multipliers"}]
              ELSE [Idle EXCEPT !.pc = "search"]
    /\ UNCHANGED <<tables, files, history, mr, v2, pb, rt, pop, osw,
                   observed, calculator,
                   generator, enrichment>>

\* lines 61-83: json.dump of default_config, then exit(0)
ATR_SaveDefault ==
    /\ atr.pc = "default"
    /\ optimized_atr_multipliers' =
          <<[status |-> "insufficient_data",
             sl_multiplier |-> AtrDefaultSl, tp_multiplier |-> AtrDefaultTp]>>
    /\ atr' = Exit(atr, "exit(0)", atr.said)
    /\ UNCHANGED <<tables, optimal_signal_config, real_trades_optimization,
                   professional_backtest_results, optimal_weights, history,
                   mr, v2, pb, rt, pop, osw, observed, calculator,
                   generator, enrichment>>

\* lines 207-214: differential_evolution(seed=42) evaluates the objective on
\* the next vector of its generator; the objective runs its loop over the
\* trades, drawing from the global generator of numpy, which no seed fixes
ATR_Evaluate ==
    /\ atr.pc = "search"
    /\ atr.idx < Len(population)
    /\ LET x == AtrCandidates[population[atr.idx + 1]]
       IN  \E wins \in Passing(WinCount(signal_performance),
                               win_prob_adjustment(x[2])) :
              LET fun == objective(signal_performance, x, wins)
                  better == atr.optimal = <<>> \/ fun <= atr.optimal[1].fun
              IN  atr' = [atr EXCEPT
                            !.idx = @ + 1,
                            !.results = Append(@, [x |-> x, fun |-> fun]),
                            !.optimal = IF better
                                        THEN <<[x |-> x, fun |-> fun]>>
                                        ELSE @]
    /\ UNCHANGED <<tables, files, history, mr, v2, pb, rt, pop, osw,
                   observed, calculator,
                   generator, enrichment>>

\* lines 216-286: result.x of the symbol, written to
\* config/optimized_atr_multipliers.json
ATR_Save ==
    /\ atr.pc = "search"
    /\ atr.idx = Len(population)
    /\ optimized_atr_multipliers' =
          <<[status |-> "optimized",
             sl_multiplier |-> atr.optimal[1].x[1],
             tp_multiplier |-> atr.optimal[1].x[2]]>>
    /\ atr' = Exit(atr, "end", {"saved"})
    /\ UNCHANGED <<tables, optimal_signal_config, real_trades_optimization,
                   professional_backtest_results, optimal_weights, history,
                   mr, v2, pb, rt, pop, osw, observed, calculator,
                   generator, enrichment>>

(***************************************************************************)
(* calculate_signal_weights.py: class SignalWeightCalculator.               *)
(*                                                                         *)
(* Confidences are in tenths of a point and scores in ten-thousandths      *)
(* (Unit), so that the slopes 0.8, 1.5, 1.33 and 0.67 are exact; the       *)
(* weighted total is in millionths (Micro).  A numeric field of a dict is  *)
(* a number, None (JSON null) or Missing (no such key); a string field is  *)
(* a string, "None" or "Missing".  A method returns a number or, when an   *)
(* operation in it raises, TypeError.                                      *)
(***************************************************************************)
Unit == 10 * 10 * 10 * 10
Micro == Unit * 100
None == 0 - 1
Missing == 0 - 2
TypeError == 0 - 3

\* a score of n points
Pts(n) == n * Unit

\* dict.get(key) and dict.get(key, default): the default for a missing key,
\* the stored value (None if null) otherwise
Get(v, default) == IF v = Missing THEN default ELSE v

\* max(0, min(100, score))
Clamp(score) == Max(0, Min(Pts(100), score))

self_weights_Heavy == <<40, 25, 20, 15, 10>>

\* lines 23-30: the weights __init__ gives self.weights, in hundredths
self_weights == <<30, 25, 20, 15, 10>>

\* calculator = SignalWeightCalculator()
SignalWeightCalculator == [weights |-> self_weights]

_score_ml_confidence_Steep(confidence) ==
    IF confidence = None THEN TypeError
    ELSE IF confidence < 500 THEN confidence * 800
    ELSE IF confidence < 700 THEN Pts(40) + (confidence - 500) * 1500
    ELSE IF confidence < 850 THEN Pts(70) + (confidence - 700) * 1500
    ELSE Pts(90) + (confidence - 850) * 670

\* lines 103-118; None < 50 raises TypeError
_score_ml_confidence(confidence) ==
    IF confidence = None THEN TypeError
    ELSE IF confidence < 500 THEN confidence * 800
    ELSE IF confidence < 700 THEN Pts(40) + (confidence - 500) * 1500
    ELSE IF confidence < 850 THEN Pts(70) + (confidence - 700) * 1330
    ELSE Pts(90) + (confidence - 850) * 670

\* lines 136-150: the points of the RSI alignment
RsiTerm(rsi, direction) ==
    IF rsi = None THEN 0
    ELSE IF direction = "BUY"
         THEN IF rsi < 30 THEN 15
              ELSE IF rsi < 50 THEN 10
              ELSE IF rsi > 70 THEN 0 - 15 ELSE 0
         ELSE IF rsi > 70 THEN 15
              ELSE IF rsi > 50 THEN 10
              ELSE IF rsi < 30 THEN 0 - 15 ELSE 0

\* lines 153-160: the points of the EMA trend alignment
EmaTerm(ema12, ema21, direction) ==
    IF ema12 = None \/ ema21 = None THEN 0
    ELSE LET ema_bullish == ema12 > ema21
         IN  IF direction = "BUY" /\ ema_bullish THEN 20
             ELSE IF direction = "SELL" /\ ~ema_bullish THEN 20
             ELSE 0 - 10

\* lines 163-169: the points of the ADX momentum
AdxTerm(adx) ==
    IF adx = None THEN 0
    ELSE IF adx > 25 THEN 15
    ELSE IF adx > 20 THEN 10
    ELSE IF adx < 15 THEN 0 - 10 ELSE 0

\* lines 120-171
_score_technical_quality(candle, direction) ==
    LET rsi == Get(candle.rsi, None)
        ema12 == Get(candle.ema12, None)
        ema21 == Get(candle.ema21, None)
        adx == Get(candle.adx, None)
    IN  Clamp(Pts(50 + RsiTerm(rsi, direction) + EmaTerm(ema12, ema21, direction)
                  + AdxTerm(adx)))

\* lines 183-199: the points of the volatility of the candle; the percentage
\* (candle_range / close) * 100 is compared exactly, as pct * 100 * close
VolatilityTerm(candle) ==
    LET high == Get(candle.high, 0)
        low == Get(candle.low, 0)
        close == Get(candle.close, 0)
        truthy(v) == v # None /\ v # 0
        c == IF close > 0 THEN close ELSE 1
        v == IF close > 0 THEN (high - low) * 100 * 100 ELSE 0
    IN  IF ~(truthy(high) /\ truthy(low) /\ truthy(close)) THEN 0
        ELSE IF 5 * c <= v /\ v <= 15 * c THEN 20
        ELSE IF 3 * c <= v /\ v <= 20 * c THEN 10
        ELSE IF v > 30 * c THEN 0 - 15
        ELSE IF v < 2 * c THEN 0 - 10 ELSE 0

\* lines 202-208: the points of the timeframe
GranularityTerm(candle) ==
    LET granularity == IF candle.granularity = "Missing" THEN ""
                       ELSE candle.granularity
    IN  IF granularity \in {"M5", "M15", "H1"} THEN 15
        ELSE IF granularity = "M1" THEN 0 - 5
        ELSE IF granularity = "H4" THEN 10 ELSE 0

\* lines 173-210
_score_market_conditions(candle) ==
    Clamp(Pts(50 + VolatilityTerm(candle) + GranularityTerm(candle)))

\* line 228: sum(1 for s in multi_tf_signals if s.get('label') == direction)
Agreements(direction, multi_tf_signals) ==
    Cardinality({i \in 1..Len(multi_tf_signals) :
                    multi_tf_signals[i].label = direction})

\* lines 236-240: the loop adds 10 for each signal of H4 or H1 that agrees
HigherTfBonus(direction, multi_tf_signals) ==
    10 * Cardinality({i \in 1..Len(multi_tf_signals) :
                        /\ multi_tf_signals[i].granularity \in {"H4", "H1"}
                        /\ multi_tf_signals[i].label = direction})

\* lines 212-242
_score_mtf_confirmation(direction, multi_tf_signals) ==
    IF multi_tf_signals = <<>> THEN Pts(50)
    ELSE LET agreements == Agreements(direction, multi_tf_signals)
             disagreements == Len(multi_tf_signals) - agreements
         IN  Clamp(Pts(50 + agreements * 15 - disagreements * 10
                       + HigherTfBonus(direction, multi_tf_signals)))

\* lines 244-276; None > 10 and None > 60 raise TypeError
_score_risk_factors(symbol, risk_metrics) ==
    LET drawdown_pct == Get(risk_metrics.current_drawdown_pct, 0)
        symbol_win_rate == Get(risk_metrics.symbol_win_rate, 50)
        tier == IF symbol \in {"EURUSD", "USDCAD"} THEN 20
                ELSE IF symbol \in {"XAUUSD", "GBPUSD"} THEN 5 ELSE 0
        drawdown == IF drawdown_pct > 10 THEN 0 - 20
                    ELSE IF drawdown_pct > 5 THEN 0 - 10 ELSE 0
        record == IF symbol_win_rate > 60 THEN 15
                  ELSE IF symbol_win_rate < 40 THEN 0 - 15 ELSE 0
    IN  IF drawdown_pct = None \/ symbol_win_rate = None THEN TypeError
        ELSE Clamp(Pts(50 + tier + drawdown + record))

_get_recommendation_Swapped(total_weight) ==
    IF total_weight >= 75 * Micro THEN "STRONG_BUY"
    ELSE IF total_weight >= 60 * Micro THEN "WEAK"
    ELSE IF total_weight >= 40 * Micro THEN "BUY"
    ELSE "AVOID"

\* lines 278-287
_get_recommendation(total_weight) ==
    IF total_weight >= 75 * Micro THEN "STRONG_BUY"
    ELSE IF total_weight >= 60 * Micro THEN "BUY"
    ELSE IF total_weight >= 40 * Micro THEN "WEAK"
    ELSE "AVOID"

_get_position_multiplier_Strict(total_weight) ==
    IF total_weight > 80 * Micro THEN 200
    ELSE IF total_weight > 70 * Micro THEN 150
    ELSE IF total_weight > 60 * Micro THEN 100
    ELSE IF total_weight > 50 * Micro THEN 75
    ELSE IF total_weight > 40 * Micro THEN 50
    ELSE 25

\* lines 289-305, the multiplier in hundredths
_get_position_multiplier(total_weight) ==
    IF total_weight >= 80 * Micro THEN 200
    ELSE IF total_weight >= 70 * Micro THEN 150
    ELSE IF total_weight >= 60 * Micro THEN 100
    ELSE IF total_weight >= 50 * Micro THEN 75
    ELSE IF total_weight >= 40 * Micro THEN 50
    ELSE 25

\* round(x, 2) of x >= 0 given in units of 1/(100 * d): the nearest hundredth,
\* the even one of two equally near
Round2(x, d) ==
    LET q == x \div d
        r == x % d
    IN  IF 2 * r > d \/ (2 * r = d /\ q % 2 = 1) THEN q + 1 ELSE q

\* an Optional argument: <<>> for None, <<v>> for the value v; x or default
OrDefault(opt, default) == IF opt = <<>> THEN default ELSE opt[1]

\* the empty dict
EmptyMetrics == [current_drawdown_pct |-> Missing, symbol_win_rate |-> Missing]

\* lines 57-76: the five scores, each a number or TypeError
ComponentScores(ml_confidence, signal_direction, candle_data, multi_tf_signals, risk_metrics) ==
    <<_score_ml_confidence(ml_confidence),
      _score_technical_quality(candle_data, signal_direction),
      _score_market_conditions(candle_data),
      _score_mtf_confirmation(signal_direction, OrDefault(multi_tf_signals, <<>>)),
      _score_risk_factors(IF candle_data.symbol = "Missing" THEN "None"
                          ELSE candle_data.symbol,
                          OrDefault(risk_metrics, EmptyMetrics))>>

\* lines 78-101: the result built from the five scores and self.weights;
\* total_weight, the components and the multiplier in hundredths
WeightResult(scores) ==
    LET total_weight == SumInts([i \in 1..5 |-> scores[i] * calc.weights[i]])
    IN  [total_weight |-> Round2(total_weight, Unit),
         components |-> [i \in 1..5 |-> Round2(scores[i], 100)],
         recommendation |-> _get_recommendation(total_weight),
         position_size_multiplier |-> _get_position_multiplier(total_weight)]

\* lines 32-101: <<result>>, or <<>> when a scorer raised
calculate_weight(ml_confidence, signal_direction, candle_data, multi_tf_signals, risk_metrics) ==
    LET scores == ComponentScores(ml_confidence, signal_direction, candle_data,
                                  multi_tf_signals, risk_metrics)
    IN  IF \E i \in 1..5 : scores[i] = TypeError THEN <<>>
        ELSE <<WeightResult(scores)>>

(***************************************************************************)
(* Calls of the calculator: the arguments are drawn in the initial state,  *)
(* and one step applies the method.                                        *)
(***************************************************************************)
NoCall == [fn |-> "none"]
NoReturn == [status |-> "pending", value |-> 0]

\* what a method that computed v leaves: the value, or the exception
Ret(v) == IF v = TypeError THEN [status |-> "raised", value |-> 0]
          ELSE [status |-> "returned", value |-> v]

Directions == {"BUY", "SELL"}
\* confidences, in tenths: 0.0, 0.1, ..., 100.0
Confidences == 0..1000
\* total weights, in millionths: 0.0, 0.1, ..., 100.0
TotalWeights == {k * (Micro \div 10) : k \in 0..1000}

\* a candle with no indicator, no price, no granularity and no symbol
EmptyCandle ==
    [symbol |-> "Missing", granularity |-> "Missing", high |-> Missing,
     low |-> Missing, close |-> Missing, rsi |-> Missing, ema12 |-> Missing,
     ema21 |-> Missing, adx |-> Missing]

\* the candle with every field null
NullCandle ==
    [symbol |-> "None", granularity |-> "None", high |-> None, low |-> None,
     close |-> None, rsi |-> None, ema12 |-> None, ema21 |-> None,
     adx |-> None]

\* the candle that scores best for BUY, and the one that scores worst
BestCandle ==
    [symbol |-> "EURUSD", granularity |-> "M15", high |-> 10010,
     low |-> 10000, close |-> 10005, rsi |-> 20, ema12 |-> 2, ema21 |-> 1,
     adx |-> 30]

WorstCandle ==
    [symbol |-> "BTCUSD", granularity |-> "M1", high |-> 10040,
     low |-> 10000, close |-> 10005, rsi |-> 80, ema12 |-> 1, ema21 |-> 2,
     adx |-> 10]

TechCandles ==
    {[EmptyCandle EXCEPT !.rsi = r, !.ema12 = e12, !.ema21 = e21, !.adx = a] :
        r \in {Missing, None, 20, 40, 50, 60, 80},
        e12 \in {Missing, None, 1, 2}, e21 \in {Missing, 1, 2},
        a \in {Missing, None, 10, 17, 22, 30}}

MarketCandles ==
    {[EmptyCandle EXCEPT !.high = h, !.low = l, !.close = c, !.granularity = g] :
        h \in {Missing, None, 0, 10001, 10004, 10010, 10018, 10025, 10040},
        l \in {Missing, None, 10000}, c \in {Missing, None, 10005, 0 - 10005},
        g \in {"Missing", "None", "M1", "M5", "M15", "H1", "H4", "D1"}}

TfSignals == [granularity : {"H4", "H1", "M5"}, label : Directions]

\* the lists of at most MaxTf timeframe signals
TfLists == UNION {[1..n -> TfSignals] : n \in 0..MaxTf}

RiskMetrics ==
    [current_drawdown_pct : {Missing, None, 0, 7, 12},
     symbol_win_rate : {Missing, None, 30, 50, 70}]

Symbols == {"None", "EURUSD", "XAUUSD", "BTCUSD"}

MlCalls ==
    [fn : {"_score_ml_confidence"}, confidence : Confidences \cup {None}]

TechCalls ==
    [fn : {"_score_technical_quality"}, candle : TechCandles,
     direction : Directions]

MarketCalls == [fn : {"_score_market_conditions"}, candle : MarketCandles]

MtfCalls ==
    [fn : {"_score_mtf_confirmation"}, direction : Directions,
     multi_tf_signals : TfLists]

RiskCalls ==
    [fn : {"_score_risk_factors"}, symbol : Symbols, risk_metrics : RiskMetrics]

RecommendationCalls ==
    [fn : {"_get_recommendation"}, total_weight : TotalWeights]

MultiplierCalls ==
    [fn : {"_get_position_multiplier"}, total_weight : TotalWeights]

WeightCalls ==
    [fn : {"calculate_weight"},
     ml_confidence : {None, 0, 680, 725, 1000},
     signal_direction : Directions,
     candle_data : {EmptyCandle, NullCandle, BestCandle, WorstCandle},
     multi_tf_signals :
        {<<>>, <<<<>>>>,
         <<<<[granularity |-> "H4", label |-> "BUY"],
             [granularity |-> "H1", label |-> "BUY"]>>>>,
         <<<<[granularity |-> "M5", label |-> "SELL"]>>>>},
     risk_metrics :
        {<<>>, <<EmptyMetrics>>,
         <<[current_drawdown_pct |-> 0, symbol_win_rate |-> 70]>>,
         <<[current_drawdown_pct |-> 12, symbol_win_rate |-> 30]>>,
         <<[current_drawdown_pct |-> None, symbol_win_rate |-> None]>>}]

\* the function calculate_signal_weight that enrich_with_batched_sql.py
\* creates in the database (lines 25-79): weight in millionths, multiplier in
\* hundredths; a NULL argument is None
sql_calculate_signal_weight(p_label_confidence, p_rsi, p_adx) ==
    LET v_ml_score == IF p_label_confidence = None THEN 500
                      ELSE p_label_confidence
        rsi_score == IF p_rsi = None THEN 50
                     ELSE IF p_rsi < 30 \/ p_rsi > 70 THEN 80
                     ELSE IF p_rsi < 40 \/ p_rsi > 60 THEN 65
                     ELSE 45
        v_tech_score == Min(IF p_adx # None /\ p_adx > 25 THEN rsi_score + 15
                            ELSE rsi_score, 100)
        v_total_weight == v_ml_score * (Micro \div 20)
                          + v_tech_score * (Micro \div 2)
    IN  IF v_total_weight >= 75 * Micro
        THEN [weight |-> v_total_weight, recommendation |-> "STRONG_BUY",
              multiplier |-> 150]
        ELSE IF v_total_weight >= 60 * Micro
        THEN [weight |-> v_total_weight, recommendation |-> "BUY",
              multiplier |-> 100]
        ELSE IF v_total_weight >= 40 * Micro
        THEN [weight |-> v_total_weight, recommendation |-> "WEAK",
              multiplier |-> 50]
        ELSE [weight |-> v_total_weight, recommendation |-> "AVOID",
              multiplier |-> 25]

\* the arguments of the SQL function: whole confidences 0..100 or NULL
SqlCalls ==
    [fn : {"sql_calculate_signal_weight"},
     p_label_confidence : {None} \cup {k * 10 : k \in 0..100},
     p_rsi : {None, 20, 35, 50, 65, 80},
     p_adx : {None, 20, 30}]

\* the calls one caller repeats on one calculator
RepeatCalls ==
    {c \in WeightCalls :
        /\ c.ml_confidence \in {680, 725} /\ c.signal_direction = "BUY"
        /\ c.candle_data \in {BestCandle, WorstCandle}
        /\ c.multi_tf_signals = <<>>
        /\ c.risk_metrics \in
              {<<>>, <<[current_drawdown_pct |-> 0, symbol_win_rate |-> 70]>>}}

CalcFrame_Mutating ==
    /\ calc' = [weights |-> self_weights_Heavy]
    /\ UNCHANGED <<call, seen, tables, files, history, mr, v2, pb, rt, pop,
                   osw, observed, atr, generator, enrichment>>

\* a step of the calculator leaves every script, table and file alone, and
\* assigns neither to self nor to its arguments
CalcFrame ==
    UNCHANGED <<call, calc, seen, tables, files, history, mr, v2, pb, rt, pop,
                osw, observed, atr, generator, enrichment>>

Call_score_ml_confidence ==
    /\ call.fn = "_score_ml_confidence" /\ ret.status = "pending"
    /\ ret' = Ret(_score_ml_confidence(call.confidence))
    /\ CalcFrame

Call_score_technical_quality ==
    /\ call.fn = "_score_technical_quality" /\ ret.status = "pending"
    /\ ret' = Ret(_score_technical_quality(call.candle, call.direction))
    /\ CalcFrame

Call_score_market_conditions ==
    /\ call.fn = "_score_market_conditions" /\ ret.status = "pending"
    /\ ret' = Ret(_score_market_conditions(call.candle))
    /\ CalcFrame

Call_score_mtf_confirmation ==
    /\ call.fn = "_score_mtf_confirmation" /\ ret.status = "pending"
    /\ ret' = Ret(_score_mtf_confirmation(call.direction,
                                          call.multi_tf_signals))
    /\ CalcFrame

Call_score_risk_factors ==
    /\ call.fn = "_score_risk_factors" /\ ret.status = "pending"
    /\ ret' = Ret(_score_risk_factors(call.symbol, call.risk_metrics))
    /\ CalcFrame

Call_get_recommendation ==
    /\ call.fn = "_get_recommendation" /\ ret.status = "pending"
    /\ ret' = [status |-> "returned",
               value |-> _get_recommendation(call.total_weight)]
    /\ CalcFrame

Call_get_position_multiplier ==
    /\ call.fn = "_get_position_multiplier" /\ ret.status = "pending"
    /\ ret' = Ret(_get_position_multiplier(call.total_weight))
    /\ CalcFrame

Call_calculate_weight ==
    /\ call.fn = "calculate_weight" /\ ret.status = "pending"
    /\ LET result == calculate_weight(call.ml_confidence, call.signal_direction,
                                      call.candle_data, call.multi_tf_signals,
                                      call.risk_metrics)
       IN  ret' = IF result = <<>> THEN [status |-> "raised", value |-> 0]
                  ELSE [status |-> "returned", value |-> result[1]]
    /\ CalcFrame

Call_sql_calculate_signal_weight ==
    /\ call.fn = "sql_calculate_signal_weight" /\ ret.status = "pending"
    /\ ret' = [status |-> "returned",
               value |-> sql_calculate_signal_weight(call.p_label_confidence,
                                                     call.p_rsi, call.p_adx)]
    /\ CalcFrame

\* a caller that holds one calculator (as the enrichment loops do) takes the
\* result of the call it made, if any, and makes its next call
Caller_Invoke ==
    /\ call.fn = "none" \/ ret.status = "returned"
    /\ seen' = IF call.fn = "none" THEN seen
               ELSE seen \cup {[call |-> call, value |-> ret.value]}
    /\ call' \in RepeatCalls
    /\ ret' = NoReturn
    /\ UNCHANGED <<calc, tables, files, history, mr, v2, pb, rt, pop, osw,
                   observed, atr, generator, enrichment>>

(***************************************************************************)
(* auto_signal_generator.py: class AutoSignalGenerator and the loop of     *)
(* run_continuous.  The trades live on OANDA and in signal_performance:    *)
(* open_trades counts the rows with oanda_trade_closed_at null, and        *)
(* realized_loss is what the trades closed today have lost, in USD.  The   *)
(* clock gives the date and the UTC hour.                                  *)
(***************************************************************************)
max_concurrent_trades == 20     \* CONFIG['max_concurrent_trades']
max_daily_loss == 200           \* CONFIG['max_daily_loss']
max_daily_trades == 120         \* CONFIG['max_daily_trades']
trading_hours_start == 8        \* CONFIG['trading_hours']['start']
trading_hours_end == 16         \* CONFIG['trading_hours']['end']

\* the hours the clock of the model shows, in order
Hours == <<0, 8, 16>>
\* what a closing trade loses, in USD
Losses == {0, 100}

\* lines 49-53: __init__ on the day the script is started
AutoSignalGenerator(day) ==
    [pc |-> "check", daily_signals |-> 0, daily_loss |-> 0,
     active_trades |-> 0, today |-> day, reason |-> "none"]

\* the generator of a database no generator script runs on
GenIdle == [AutoSignalGenerator(0) EXCEPT !.pc = "idle"]

\* lines 55-63
reset_daily_counters(g) ==
    IF clock.day # g.today
    THEN [g EXCEPT !.daily_signals = 0, !.daily_loss = 0, !.today = clock.day]
    ELSE g

\* lines 65-69
is_trading_hours ==
    trading_hours_start <= clock.hour /\ clock.hour < trading_hours_end

\* lines 71-85: the reason returned; "OK" goes with True
can_generate_signal(g) ==
    IF ~is_trading_hours THEN "Outside trading hours"
    ELSE IF g.daily_signals >= max_daily_trades THEN "Max daily trades reached"
    ELSE IF g.daily_loss >= max_daily_loss THEN "Max daily loss reached"
    ELSE IF g.active_trades >= max_concurrent_trades
         THEN "Max concurrent trades"
    ELSE "OK"

GenFrame ==
    UNCHANGED <<tables, files, history, mr, v2, pb, rt, pop, osw, observed,
                atr, calculator, enrichment>>

\* lines 126-140: the head of the loop body; when no signal may be generated
\* the loop sleeps five minutes and continues
Gen_Check ==
    /\ gen.pc = "check"
    /\ LET g == reset_daily_counters(gen)
           reason == can_generate_signal(g)
       IN  gen' = [g EXCEPT !.pc = IF reason = "OK" THEN "generate" ELSE "sleep",
                            !.reason = reason]
    /\ UNCHANGED <<oanda, clock>>
    /\ GenFrame

\* lines 87-113 and 145-164: generate_signal posts to the edge function; an
\* answer other than 200 or an exception gives None; a 200 counts the signal;
\* when the result reports success the edge function may have opened a trade
\* and active_trades is read back (0 when the query raises)
Gen_Generate ==
    /\ gen.pc = "generate"
    /\ \/ /\ gen' = [gen EXCEPT !.pc = "sleep"]
          /\ UNCHANGED oanda
       \/ /\ gen.daily_signals < MaxGenerated
          /\ gen' = [gen EXCEPT !.pc = "sleep", !.daily_signals = @ + 1]
          /\ UNCHANGED oanda
       \/ /\ gen.daily_signals < MaxGenerated
          /\ \E opened \in {0, 1}, query_raises \in BOOLEAN :
                /\ oanda' = [oanda EXCEPT !.open_trades = @ + opened]
                /\ gen' = [gen EXCEPT
                             !.pc = "sleep",
                             !.daily_signals = @ + 1,
                             !.active_trades = IF query_raises THEN 0
                                               ELSE oanda.open_trades + opened]
    /\ UNCHANGED clock
    /\ GenFrame

\* lines 136-137 and 164: asyncio.sleep returns and the loop continues
Gen_Wake ==
    /\ gen.pc = "sleep"
    /\ gen' = [gen EXCEPT !.pc = "check"]
    /\ UNCHANGED <<oanda, clock>>
    /\ GenFrame

\* a trade closes on OANDA: its row gets oanda_trade_closed_at, and its loss
\* is realized
Trade_Close ==
    /\ oanda.open_trades > 0
    /\ \E loss \in Losses :
          /\ oanda.realized_loss + loss <= 2 * max_daily_loss
          /\ oanda' = [open_trades |-> oanda.open_trades - 1,
                       realized_loss |-> oanda.realized_loss + loss]
    /\ UNCHANGED <<gen, clock>>
    /\ GenFrame

\* time passes: the next hour of the clock, and after the last hour the next
\* day, which has no realized loss yet
Clock_Advance ==
    /\ \E i \in 1..Len(Hours) :
          /\ Hours[i] = clock.hour
          /\ IF i < Len(Hours)
             THEN clock' = [clock EXCEPT !.hour = Hours[i + 1]]
                  /\ UNCHANGED oanda
             ELSE /\ clock.day < MaxDays
                  /\ clock' = [day |-> clock.day + 1, hour |-> Hours[1]]
                  /\ oanda' = [oanda EXCEPT !.realized_loss = 0]
    /\ UNCHANGED gen
    /\ GenFrame

(***************************************************************************)
(* The enrichment scripts: enrich_signals_auto.py,                         *)
(* enrich_signals_ultra_fast.py and enrich_signals_with_weights.py.        *)
(*                                                                         *)
(* A row of ml_historical_candles carries is_labeled, dataset_type,        *)
(* label_confidence (tenths, or None) and the three weight columns; its    *)
(* label is BUY and its indicator, price, symbol and granularity columns   *)
(* are null.  All rows have one granularity, so get_multi_tf_signals finds *)
(* no row of another timeframe.  A select without ORDER BY returns the     *)
(* rows in any order, so a page is any set of rows of the right size.      *)
(* The running totals the scripts print are not kept.                      *)
(***************************************************************************)
Signal(labeled, dataset, conf) ==
    [is_labeled |-> labeled, dataset_type |-> dataset,
     label_confidence |-> conf, signal_weight |-> None,
     signal_recommendation |-> "None", position_multiplier |-> None]

\* the rows a table of the model is made of: labeled rows of either dataset,
\* a labeled row with a null confidence, an unlabeled row, and a row an
\* earlier run enriched
SignalRows ==
    {Signal(TRUE, "training", 680), Signal(TRUE, "testing", 680),
     Signal(TRUE, "training", None), Signal(FALSE, "training", None),
     [Signal(TRUE, "training", 680) EXCEPT !.signal_weight = 5510,
                                           !.signal_recommendation = "WEAK",
                                           !.position_multiplier = 75]}

SignalTables == UNION {[1..n -> SignalRows] : n \in 0..MaxSignalRows}

EnrichScripts == {"auto", "ultra_fast", "with_weights"}

EnrichIdle(script) ==
    [script |-> script, pc |-> "idle", total_signals |-> 0, offset |-> 0,
     dataset_type |-> "training", batch |-> {}, errors |-> FALSE]

\* .eq('is_labeled', True).is_('signal_weight', 'null')
NullLabeled(rows) ==
    {i \in DOMAIN rows : rows[i].is_labeled /\ rows[i].signal_weight = None}

\* .eq('dataset_type', dataset_type).eq('is_labeled', True)
LabeledOf(rows, dataset_type) ==
    {i \in DOMAIN rows :
        rows[i].is_labeled /\ rows[i].dataset_type = dataset_type}

\* .range(offset, offset + batch_size - 1) of a select that matches ids
Page(ids, offset, batch_size) ==
    {S \in SUBSET ids :
        Cardinality(S) = Min(batch_size, Max(0, Cardinality(ids) - offset))}

\* calculator.calculate_weight(...) on a row: <<result>>, or <<>> when it
\* raises (which the loop catches)
RowWeight(signal) ==
    calculate_weight(signal.label_confidence, "BUY", NullCandle, <<<<>>>>,
                     <<EmptyMetrics>>)

\* what calculate_weight gives on each row of the table; a batch uses the
\* results of its own rows
Weights(rows) == [i \in DOMAIN rows |-> RowWeight(rows[i])]

\* the row after .update({...}).eq('id', signal['id'])
Enriched(signal, weight_result) ==
    [signal EXCEPT
       !.signal_weight = weight_result.total_weight,
       !.signal_recommendation = weight_result.recommendation,
       !.position_multiplier = weight_result.position_size_multiplier]

\* the table after the rows of the set ids are updated
Updated(rows, results, ids) ==
    [i \in DOMAIN rows |->
        IF i \in ids THEN Enriched(rows[i], results[i][1]) ELSE rows[i]]

\* the rows of a batch whose weight calculation does not raise
Calculated(results, batch) == {i \in batch : results[i] # <<>>}

EnrichFrame ==
    UNCHANGED <<tables, files, history, mr, v2, pb, rt, pop, osw, observed,
                atr, calculator, generator>>

\* enrich_signals_auto.py, lines 99-117: count the rows to enrich
EA_Count ==
    /\ enrich.script = "auto" /\ enrich.pc = "idle"
    /\ LET total_signals == Cardinality(NullLabeled(signal_rows))
       IN  enrich' = IF total_signals = 0 THEN [enrich EXCEPT !.pc = "done"]
                     ELSE [enrich EXCEPT !.pc = "batch",
                                         !.total_signals = total_signals]
    /\ UNCHANGED signal_rows
    /\ EnrichFrame

\* enrich_signals_auto.py, lines 119-129 with enrich_signals_batch (42-93):
\* one pass of the loop body and the test of the loop that follows it
EA_Batch ==
    /\ enrich.script = "auto" /\ enrich.pc = "batch"
    /\ \E results \in {Weights(signal_rows)},
          batch \in Page(NullLabeled(signal_rows), enrich.offset, BatchSize) :
          LET enriched == Calculated(results, batch)
              count == Cardinality(enriched)
              offset == enrich.offset + BatchSize
          IN  /\ signal_rows' = Updated(signal_rows, results, enriched)
              /\ enrich' =
                    [enrich EXCEPT
                       !.errors = @ \/ enriched # batch,
                       !.offset = IF count = 0 THEN @ ELSE offset,
                       !.pc = IF count = 0 \/ offset >= enrich.total_signals
                              THEN "done" ELSE "batch"]
    /\ EnrichFrame

\* enrich_signals_ultra_fast.py, lines 116-135
UF_Count ==
    /\ enrich.script = "ultra_fast" /\ enrich.pc = "idle"
    /\ LET total_signals == Cardinality(NullLabeled(signal_rows))
       IN  enrich' = IF total_signals = 0 THEN [enrich EXCEPT !.pc = "done"]
                     ELSE [enrich EXCEPT !.pc = "batch",
                                         !.total_signals = total_signals]
    /\ UNCHANGED signal_rows
    /\ EnrichFrame

\* enrich_signals_ultra_fast.py, lines 137-146 with enrich_batch_ultra_fast
\* (32-104): the weights are written by upsert, or row by row when the
\* upsert fails, and a row whose update fails is passed over; the count is
\* len(updates) in either case
UF_Batch ==
    /\ enrich.script = "ultra_fast" /\ enrich.pc = "batch"
    /\ \E results \in {Weights(signal_rows)},
          batch \in Page(NullLabeled(signal_rows), enrich.offset, BatchSize) :
          LET updates == Calculated(results, batch)
              count == Cardinality(updates)
              offset == enrich.offset + BatchSize
          IN  \E written \in SUBSET updates :
                 /\ signal_rows' = Updated(signal_rows, results, written)
                 /\ enrich' =
                       [enrich EXCEPT
                          !.errors = @ \/ written # batch,
                          !.offset = IF count = 0 THEN @ ELSE offset,
                          !.pc = IF count = 0 \/ offset >= enrich.total_signals
                                 THEN "done" ELSE "batch"]
    /\ EnrichFrame

\* enrich_signals_with_weights.py: what main does when a batch returned 0:
\* the loop of the training dataset is followed by that of the testing
\* dataset, and that by the analysis
NextDataset(e) ==
    IF e.dataset_type = "training"
    THEN [e EXCEPT !.dataset_type = "testing", !.pc = "fetch", !.batch = {}]
    ELSE [e EXCEPT !.pc = "done", !.batch = {}]

\* enrich_signals_with_weights.py, lines 130-147: main, up to the first loop
IE_Start ==
    /\ enrich.script = "with_weights" /\ enrich.pc = "idle"
    /\ enrich' = [enrich EXCEPT !.pc = "fetch"]
    /\ UNCHANGED signal_rows
    /\ EnrichFrame

\* enrich_signals_with_weights.py, lines 46-57: the select of a batch
\* (.eq('dataset_type', ...).eq('is_labeled', True).limit(batch_size))
IE_Fetch ==
    /\ enrich.script = "with_weights" /\ enrich.pc = "fetch"
    /\ \E batch \in Page(LabeledOf(signal_rows, enrich.dataset_type), 0, BatchSize) :
          enrich' = IF batch = {} THEN NextDataset(enrich)
                    ELSE [enrich EXCEPT !.pc = "update", !.batch = batch]
    /\ UNCHANGED signal_rows
    /\ EnrichFrame

\* enrich_signals_with_weights.py, lines 60-98 and 148-163: the rows of the
\* batch are updated; the loop of main ends when none was
IE_Update ==
    /\ enrich.script = "with_weights" /\ enrich.pc = "update"
    /\ \E results \in {Weights(signal_rows)} :
          LET enriched == Calculated(results, enrich.batch)
          IN  /\ signal_rows' = Updated(signal_rows, results, enriched)
              /\ enrich' =
                    IF enriched = {}
                    THEN NextDataset([enrich EXCEPT !.errors = TRUE])
                    ELSE [enrich EXCEPT !.errors = @ \/ enriched # enrich.batch,
                                        !.pc = "fetch", !.batch = {}]
    /\ EnrichFrame

(***************************************************************************)
(* Initial states.                                                         *)
(***************************************************************************)
Group(c, w, p, n) == [conf |-> c, win |-> w, pips |-> p, n |-> n]

\* the tables of three groups with the given confidences and sizes; an empty
\* group has no rows, so its outcome and pips are fixed
Tables(conf, sizes, pips) ==
    {[i \in 1..3 |-> Group(conf[i], w[i], p[i], n[i])] :
        w \in [1..3 -> BOOLEAN], p \in [1..3 -> pips],
        n \in {f \in [1..3 -> 0..100] : \A i \in 1..3 : f[i] \in sizes[i]}}

Normal(t) == \A i \in 1..3 : t[i].n = 0 => (~t[i].win /\ t[i].pips = 0)

Datasets == {t \in Tables(SlotConf, SlotSizes, 0..MaxPips) : Normal(t)}

\* signal_performance carries no pips (df['pips'] = 0.0 is never filled in)
TradeSets == {t \in Tables(TradeConf, TradeSizes, {0}) : Normal(t)}

\* the data the activation specifications run monthly_retrain on: an optimum
\* at 65, an optimum at 50, no valid threshold, and 99 signals
ActivationCandles ==
    {t \in Datasets :
        /\ \A i \in 1..3 : t[i].n > 0 => (t[i].pips = 1 /\ t[i].win = (i # 2))
        /\ <<t[1].n, t[2].n, t[3].n>> \in
              {<<100, 10, 10>>, <<100, 10, 0>>, <<100, 9, 0>>, <<90, 9, 0>>}}

\* the weighted rows: pips of 1, and the component scores of each group
WeightedSets ==
    {[i \in 1..3 |-> [comps |-> SlotComps[i]] @@ t[i]] :
        t \in {u \in Tables(SlotConf, SlotSizes, {0, 1}) :
                  Normal(u) /\ \A i \in 1..3 : u[i].n > 0 => u[i].pips = 1}}

\* the data of the repeated searches: 110 or 120 weighted rows; 60, 110 or
\* 120 closed trades
DeWeighted ==
    {w \in WeightedSets : w[1].n >= 90 /\ w[2].n = 10 /\ w[3].n = 10}

DeTrades ==
    {t \in TradeSets : t[1].n \in {40, 100} /\ t[2].n = 10 /\ t[3].n > 0}

ConfigFiles ==
    {<<>>} \cup {<<[optimal_threshold |-> t]>> : t \in ConfigThresholds}

\* the table after one initial activation of the default threshold
InitialHistory == <<[optimal_threshold |-> DefaultThreshold, active |-> TRUE]>>

\* the vectors the generator of seed 42 gives a search, as indices into the
\* candidate list: one fixed stream, whatever it is, of 1..MaxEvals vectors
Populations ==
    UNION {[1..n -> 1..Len(Candidates)] : n \in 1..MaxEvals}

\* no script has been started
InitScripts ==
    /\ mr = [r \in Runs |-> Idle]
    /\ v2 = Idle
    /\ pb = Idle
    /\ rt = Idle
    /\ pop = Idle
    /\ osw = Idle
    /\ atr = Idle
    /\ observed = 0 - 1
    /\ optimized_atr_multipliers = <<>>

\* a calculator nobody has called
NoCalculator ==
    /\ call = NoCall
    /\ ret = NoReturn
    /\ calc = SignalWeightCalculator
    /\ seen = {}

\* no signal generator runs
NoGenerator ==
    /\ gen = GenIdle
    /\ oanda = [open_trades |-> 0, realized_loss |-> 0]
    /\ clock = [day |-> 0, hour |-> Hours[1]]

\* no enrichment script runs
NoEnrichment ==
    /\ signal_rows = <<>>
    /\ enrich = EnrichIdle("none")

InitProcesses ==
    /\ InitScripts
    /\ NoCalculator
    /\ NoGenerator
    /\ NoEnrichment

\* no table has a row and no config file is there
EmptyDatabase ==
    /\ candles = <<>> /\ signal_performance = <<>> /\ weighted = <<>>
    /\ population = <<1>>
    /\ history = <<>>
    /\ optimal_signal_config = <<>>
    /\ real_trades_optimization = <<>>
    /\ professional_backtest_results = <<>>
    /\ optimal_weights = <<>>

\* one optimizer script is run on a database that holds one of the tables; a
\* search evaluates one vector (SpecDE runs the longer searches)
Init ==
    /\ \/ /\ candles = <<>> /\ signal_performance \in TradeSets
          /\ weighted = <<>> /\ population = <<1>>
       \/ /\ candles \in Datasets /\ signal_performance = <<>>
          /\ weighted = <<>> /\ population = <<1>>
       \/ /\ candles = <<>> /\ signal_performance = <<>>
          /\ weighted \in WeightedSets
          /\ population \in {<<i>> : i \in 1..Len(Candidates)}
    /\ history \in {<<>>, InitialHistory}
    /\ optimal_signal_config = <<>>
    /\ real_trades_optimization = <<>>
    /\ professional_backtest_results = <<>>
    /\ optimal_weights = <<>>
    /\ InitProcesses

\* the activation scripts, on an empty history table or after a first activation
InitActivation ==
    /\ candles \in ActivationCandles
    /\ signal_performance = <<>>
    /\ weighted = <<>>
    /\ population = <<1>>
    /\ history \in {<<>>, InitialHistory}
    /\ optimal_signal_config \in ConfigFiles
    /\ real_trades_optimization = <<>>
    /\ professional_backtest_results = <<>>
    /\ optimal_weights = <<>>
    /\ InitProcesses

(***************************************************************************)
(* Scheduling.                                                             *)
(***************************************************************************)
Stopped(p) == p.pc \in {"idle", "done"}

NoneStarted ==
    /\ \A r \in Runs : mr[r].pc = "idle"
    /\ v2.pc = "idle" /\ pb.pc = "idle" /\ rt.pc = "idle" /\ pop.pc = "idle"
    /\ osw.pc = "idle"

\* no script that writes weight_optimization_history is running
NoWriter == (\A r \in Runs : Stopped(mr[r])) /\ Stopped(pop)

Writers ==
    Cardinality({r \in Runs : ~Stopped(mr[r])}) + (IF Stopped(pop) THEN 0 ELSE 1)

\* a further script may start while the table stays within MaxRows
Budget == Len(history) + Writers < MaxRows

\* one run of one optimizer script
Next ==
    \/ NoneStarted /\ MR_Load(1)
    \/ MR_Sweep(1) \/ MR_Deactivate(1) \/ MR_Insert(1) \/ MR_Verify(1)
    \/ NoneStarted /\ V2_Load
    \/ V2_Sweep \/ V2_Save
    \/ NoneStarted /\ PB_Load
    \/ PB_Sweep \/ PB_Save
    \/ NoneStarted /\ RT_Load
    \/ RT_Sweep \/ RT_Save
    \/ NoneStarted /\ OSW_Load
    \/ OSW_Evaluate \/ OSW_Save

Spec == Init /\ [][Next]_vars

\* activations run one after the other, with a reader at any time
NextSeq ==
    \/ NoWriter /\ Budget /\ MR_Load(1)
    \/ MR_Sweep(1) \/ MR_Deactivate(1) \/ MR_Insert(1) \/ MR_Verify(1)
    \/ NoWriter /\ Budget /\ Pop_Load
    \/ Pop_Insert \/ Pop_Verify
    \/ Reader

SpecSeq == InitActivation /\ [][NextSeq]_vars

\* the scripts run as concurrent processes on one database
NextActivation ==
    \/ \E r \in Runs :
          \/ Budget /\ MR_Load(r)
          \/ MR_Sweep(r) \/ MR_Deactivate(r) \/ MR_Insert(r) \/ MR_Verify(r)
          \/ MR_InsertFails(r)
    \/ Budget /\ Pop_Load
    \/ Pop_Insert \/ Pop_Verify
    \/ Reader

SpecActivation == InitActivation /\ [][NextActivation]_vars

\* the two differential-evolution scripts, each run any number of times, one
\* run at a time, on data and a seed that stay the same
InitDE ==
    /\ candles = <<>>
    /\ \/ signal_performance = <<>> /\ weighted \in DeWeighted
       \/ signal_performance \in DeTrades /\ weighted = <<>>
    /\ population \in Populations
    /\ history = <<>>
    /\ optimal_signal_config = <<>>
    /\ real_trades_optimization = <<>>
    /\ professional_backtest_results = <<>>
    /\ optimal_weights = <<>>
    /\ InitProcesses

NextDE ==
    \/ Stopped(atr) /\ OSW_Load
    \/ OSW_Evaluate \/ OSW_Save
    \/ Stopped(osw) /\ ATR_Load
    \/ ATR_SaveDefault \/ ATR_Evaluate \/ ATR_Save

SpecDE == InitDE /\ [][NextDE]_vars

\* one call of one method of SignalWeightCalculator
InitCalc ==
    /\ candles = <<>> /\ signal_performance = <<>> /\ weighted = <<>>
    /\ population = <<1>>
    /\ history = <<>>
    /\ optimal_signal_config = <<>>
    /\ real_trades_optimization = <<>>
    /\ professional_backtest_results = <<>>
    /\ optimal_weights = <<>>
    /\ optimized_atr_multipliers = <<>>
    /\ mr = [r \in Runs |-> Idle]
    /\ v2 = Idle /\ pb = Idle /\ rt = Idle /\ pop = Idle /\ osw = Idle
    /\ atr = Idle
    /\ observed = 0 - 1
    /\ \/ call \in MlCalls
       \/ call \in TechCalls
       \/ call \in MarketCalls
       \/ call \in MtfCalls
       \/ call \in RiskCalls
       \/ call \in RecommendationCalls
       \/ call \in MultiplierCalls
       \/ call \in WeightCalls
       \/ call \in SqlCalls
    /\ ret = NoReturn
    /\ calc = SignalWeightCalculator
    /\ seen = {}
    /\ NoGenerator
    /\ NoEnrichment

NextCalc ==
    \/ Call_score_ml_confidence
    \/ Call_score_technical_quality
    \/ Call_score_market_conditions
    \/ Call_score_mtf_confirmation
    \/ Call_score_risk_factors
    \/ Call_get_recommendation
    \/ Call_get_position_multiplier
    \/ Call_calculate_weight
    \/ Call_sql_calculate_signal_weight

SpecCalc == InitCalc /\ [][NextCalc]_vars

\* one caller makes call after call on one calculator
InitCalls ==
    /\ EmptyDatabase
    /\ InitScripts
    /\ NoCalculator
    /\ NoGenerator
    /\ NoEnrichment

NextCalls ==
    \/ Caller_Invoke
    \/ Call_calculate_weight

SpecCalls == InitCalls /\ [][NextCalls]_vars

\* the signal generator, started at any hour of a day on which 0, 19 or 20
\* trades are open
InitGenerator ==
    /\ EmptyDatabase
    /\ InitScripts
    /\ NoCalculator
    /\ NoEnrichment
    /\ clock \in {[day |-> 0, hour |-> Hours[i]] : i \in 1..Len(Hours)}
    /\ oanda \in {[open_trades |-> n, realized_loss |-> 0] :
                     n \in {0, max_concurrent_trades - 1,
                            max_concurrent_trades}}
    /\ gen = AutoSignalGenerator(clock.day)

NextGenerator ==
    \/ Gen_Check
    \/ Gen_Generate
    \/ Gen_Wake
    \/ Trade_Close
    \/ Clock_Advance

\* the loop of run_continuous keeps running: a sleep ends, and the step after
\* it is taken; trades and the clock move as they will
SpecGenerator ==
    /\ InitGenerator
    /\ [][NextGenerator]_vars
    /\ WF_vars(Gen_Check) /\ WF_vars(Gen_Generate) /\ WF_vars(Gen_Wake)

\* one run of one enrichment script, with no other writer of the table
InitEnrich ==
    /\ EmptyDatabase
    /\ InitScripts
    /\ NoCalculator
    /\ NoGenerator
    /\ signal_rows \in SignalTables
    /\ enrich \in {EnrichIdle(script) : script \in EnrichScripts}

NextEnrich ==
    \/ EA_Count \/ EA_Batch
    \/ UF_Count \/ UF_Batch
    \/ IE_Start \/ IE_Fetch \/ IE_Update

\* the script is a sequential program that keeps running
SpecEnrich == InitEnrich /\ [][NextEnrich]_vars /\ WF_vars(NextEnrich)

(***************************************************************************)
(* The claims.                                                             *)
(***************************************************************************)
ValidThreshold(t) == t >= 0 /\ t <= 100

Failure(p) == p.exit \notin {"exit(0)", "end"}

\* the thresholds of a list at which at least 10 rows of df qualify
Admitted(df, ths) ==
    {ths[i] : i \in {j \in 1..Len(ths) :
                       NRows(FilterConf(df, ths[j])) >= MinQualified}}

ResultThresholds(results) == {results[i].threshold : i \in 1..Len(results)}

\* C1 (as claimed): while one monthly_retrain run, started with exactly one
\* active row, is between its deactivating update and its insert, every read
\* of weight_optimization_history sees exactly one active row.
C1_ReaderSeesOneActive ==
    [][(mr[1].pc = "insert" /\ mr[1].updated = 1 /\ observed' # observed)
        => observed' = 1]_vars

\* C2 (as claimed): once the activations run so far, one at a time, have
\* completed, exactly one row is active and it is the row inserted last.
C2_OnlyLastActivationActive ==
    (NoWriter /\ Len(history) > 0) => ActiveRows = {Len(history)}

\* C3 (as claimed): the set of active rows changes only in the insert of the
\* separate activation script, never in a step of an optimizer run.
C3_ActivationOnlyExplicit ==
    [][ActiveRows' # ActiveRows => (pop.pc = "insert" /\ pop'.pc = "verify")]_vars

\* C4 (as claimed): no row with a threshold outside [0,100] is ever inserted,
\* and an activation of such a config ends in an error.
C4_InvalidConfigRejected ==
    /\ \A i \in 1..Len(history) : ValidThreshold(history[i].optimal_threshold)
    /\ (/\ pop.pc = "done" /\ pop.optimal # <<>>
        /\ ~ValidThreshold(pop.optimal[1].optimal_threshold)) => Failure(pop)

\* an optimizer run that found fewer than 100 rows: it ended at the guard,
\* reported it, and evaluated nothing
StoppedAtGuard(p) ==
    /\ p.pc = "done" /\ p.exit \in {"exit(0)", "exit(1)"}
    /\ "not_enough_data" \in p.said
    /\ p.idx = 0 /\ p.results = <<>> /\ p.optimal = <<>>

\* C5: with fewer than 100 signals loaded, monthly_retrain,
\* optimize_signal_weights and optimize_signal_weights_v2 stop at the guard
\* and report it: no threshold or weight vector is evaluated, no config file
\* is written, and weight_optimization_history keeps its rows and its active
\* row.
C5_InsufficientDataStops ==
    /\ (mr[1].pc # "idle" /\ NRows(candles) < MinSignals) => StoppedAtGuard(mr[1])
    /\ (v2.pc # "idle" /\ NRows(candles) < MinSignals) => StoppedAtGuard(v2)
    /\ (osw.pc # "idle" /\ NRows(weighted) < MinSignals) => StoppedAtGuard(osw)
    /\ (\/ mr[1].pc # "idle" /\ NRows(candles) < MinSignals
        \/ v2.pc # "idle" /\ NRows(candles) < MinSignals
        \/ osw.pc # "idle" /\ NRows(weighted) < MinSignals)
          => /\ optimal_signal_config = <<>> /\ optimal_weights = <<>>
             /\ history \in {<<>>, InitialHistory}

\* 99 signals were loaded and monthly_retrain stopped
C5_Witness ==
    NRows(candles) = MinSignals - 1 /\ StoppedAtGuard(mr[1])

\* C6 (as claimed): optimize_from_real_trades writes its config only with at
\* least 100 closed trades, and with fewer it ends in a failure.
C6_RealTradesNeedHundred ==
    /\ real_trades_optimization # <<>> => NRows(signal_performance) >= 100
    /\ (rt.pc = "done" /\ NRows(signal_performance) < 100) => Failure(rt)

\* a sweep that ran on at least 100 rows and admitted no threshold
NoValidThreshold(p, data) ==
    p.pc = "done" /\ p.idx > 0 /\ p.results = <<>> /\ NRows(data) >= MinSignals

\* C7 (as claimed): a sweep over at least 100 rows that admits no threshold
\* ends in a failure reported as 'no valid threshold', announces no default
\* threshold, and writes and activates nothing.
C7_NoValidThresholdReported ==
    \A q \in {<<mr[1], candles>>, <<v2, candles>>, <<rt, signal_performance>>} :
        NoValidThreshold(q[1], q[2])
          => /\ Failure(q[1])
             /\ "no_valid_thresholds" \in q[1].said
             /\ "default_threshold" \notin q[1].said
             /\ q[1].optimal = <<>>
             /\ optimal_signal_config = <<>> /\ real_trades_optimization = <<>>
             /\ history \in {<<>>, InitialHistory}

\* C8: after the sweep of monthly_retrain, results holds exactly the
\* thresholds with at least 10 qualifying rows, in ascending order, each with
\* the composite score of its recorded metrics; the selected entry is one of
\* them, no entry has a higher score, and no lower threshold has the same
\* score.
C8_SelectsFirstMaximum ==
    LET p == mr[1]
        results == p.results
    IN  p.optimal # <<>> =>
          /\ ResultThresholds(results) = Admitted(candles, thresholds)
          /\ \A i \in 1..Len(results) :
                /\ results[i].total_trades >= MinQualified
                /\ results[i].score =
                      results[i].win_rate * 4 + results[i].avg_pips * 3
                      + results[i].sharpe_ratio * 50
                      + Min(results[i].profit_factor, PfCap * Milli) * 20
                /\ \A j \in 1..Len(results) :
                      i < j => results[i].threshold < results[j].threshold
          /\ \E i \in 1..Len(results) : results[i] = p.optimal[1]
          /\ \A i \in 1..Len(results) :
                /\ results[i].score <= p.optimal[1].score
                /\ results[i].score = p.optimal[1].score
                      => results[i].threshold >= p.optimal[1].threshold

\* the sweep excluded a threshold, two admitted thresholds tie for the
\* maximum, and the selection is not the first entry
C8_Witness ==
    LET p == mr[1]
    IN  /\ p.optimal # <<>>
        /\ Len(p.results) < Len(thresholds)
        /\ p.optimal[1].threshold > p.results[1].threshold
        /\ \E i \in 1..Len(p.results) :
              /\ p.results[i].score = p.optimal[1].score
              /\ p.results[i].threshold > p.optimal[1].threshold

\* C9 (as claimed): no entry of a threshold sweep records an infinite profit
\* factor or an infinite composite score.
C9_ProfitFactorFinite ==
    \A results \in {mr[1].results, pb.results} :
        \A i \in 1..Len(results) :
            ~IsInf(results[i].profit_factor) /\ ~IsInf(results[i].score)

\* C10: for thresholds t1 < t2 of monthly_retrain and of
\* optimize_signal_weights_v2, every row qualifying at t2 qualifies at t1 and
\* the count at t2 is at most the count at t1; in the results of a finished
\* sweep, an excluded threshold is followed by excluded thresholds only.
C10_FilterMonotone ==
    /\ \A ths \in {thresholds, V2_thresholds} :
          \A i, j \in 1..Len(ths) :
              i < j =>
                LET at1 == FilterConf(candles, ths[i])
                    at2 == FilterConf(candles, ths[j])
                IN  /\ NRows(at2) <= NRows(at1)
                    /\ \A k \in 1..Len(at2) : \E m \in 1..Len(at1) : at1[m] = at2[k]
                    /\ NRows(at1) < MinQualified => NRows(at2) < MinQualified
    /\ \A q \in {<<mr[1], thresholds>>, <<v2, V2_thresholds>>} :
          q[1].idx > 0 =>
            \A i, j \in 1..Len(q[2]) :
                (i < j /\ q[2][j] \in ResultThresholds(q[1].results))
                  => q[2][i] \in ResultThresholds(q[1].results)

\* a finished sweep of monthly_retrain that admitted some thresholds and
\* excluded the higher ones, on data whose count falls as the threshold rises
C10_Witness ==
    /\ mr[1].idx > 0
    /\ mr[1].results # <<>>
    /\ Len(mr[1].results) < Len(thresholds)
    /\ NRows(FilterConf(candles, 92)) > 0
    /\ NRows(FilterConf(candles, 92)) < NRows(FilterConf(candles, 50))

\* C11 (as claimed): every vector the objective of optimize_signal_weights is
\* evaluated on has five non-negative weights that sum to 1, and the number
\* of qualifying signals saved with the normalized optimum is the number the
\* objective counted for the vector it returned.
C11_ObjectiveOnSimplex ==
    /\ \A i \in 1..Len(osw.results) :
          /\ SumInts(osw.results[i].x) = 10
          /\ \A k \in 1..5 : osw.results[i].x[k] >= 0
    /\ optimal_weights # <<>> =>
          optimal_weights[1].qualified_signals =
             NRows(QualifiedSignals(weighted, optimal_weights[1].optimal_weights))

\* within one search, a vector evaluated twice got the same objective value
SameFun(results) ==
    \A i, j \in 1..Len(results) :
        results[i].x = results[j].x => results[i].fun = results[j].fun

\* C12: in every run of optimize_signal_weights and of
\* optimize_atr_multipliers, a candidate evaluated twice gets one objective
\* value, and a run that ends on the data and seed of an earlier run writes
\* the result the earlier run wrote.
C12_SeededRunsAgree ==
    [][/\ SameFun(osw'.results)
       /\ SameFun(atr'.results)
       /\ (osw.pc = "search" /\ osw'.pc = "done" /\ optimal_weights # <<>>)
             => optimal_weights' = optimal_weights
       /\ (/\ atr.pc = "search" /\ atr'.pc = "done"
           /\ optimized_atr_multipliers # <<>>)
             => optimized_atr_multipliers' = optimized_atr_multipliers]_vars

\* a second run of optimize_atr_multipliers has evaluated all its candidates
\* on trades with winners, at least one of them through the loop that draws
\* random numbers, while the result of the first run is on file
C12_Witness ==
    /\ atr.pc = "search"
    /\ Len(population) = MaxEvals /\ atr.idx = MaxEvals
    /\ optimized_atr_multipliers # <<>>
    /\ optimized_atr_multipliers[1].status = "optimized"
    /\ WinCount(signal_performance) > 0
    /\ \E i \in 1..Len(atr.results) : atr.results[i].fun < 0

ScorerNames ==
    {"_score_ml_confidence", "_score_technical_quality",
     "_score_market_conditions", "_score_mtf_confirmation",
     "_score_risk_factors"}

\* C13 (as claimed): every value a scorer returns lies in [0,100].
C13_ScoresInRange ==
    (call.fn \in ScorerNames /\ ret.status = "returned")
        => (0 <= ret.value /\ ret.value <= Pts(100))

\* C14: for a confidence x in [0,100], _score_ml_confidence returns x*0.8 on
\* [0,50), 40+(x-50)*1.5 on [50,70), 70+(x-70)*1.33 on [70,85) and
\* 90+(x-85)*0.67 on [85,100]; 68 gives 67.0; no lower confidence scores
\* higher.  (x is in tenths and the score in units of 1/Unit.)
C14_PiecewiseRemap ==
    (call.fn = "_score_ml_confidence" /\ ret.status = "returned") =>
        LET x == call.confidence
        IN  /\ x < 500 => ret.value = x * 8 * (Unit \div 100)
            /\ (500 <= x /\ x < 700) =>
                  ret.value = Pts(40) + (x - 500) * 15 * (Unit \div 100)
            /\ (700 <= x /\ x < 850) =>
                  ret.value = Pts(70) + (x - 700) * 133 * (Unit \div 1000)
            /\ 850 <= x =>
                  ret.value = Pts(90) + (x - 850) * 67 * (Unit \div 1000)
            /\ x = 680 => ret.value = 67 * Unit
            /\ \A y \in Confidences :
                  y <= x => _score_ml_confidence(y) <= ret.value

\* _score_ml_confidence(68) returned 67.0
C14_Witness ==
    /\ call.fn = "_score_ml_confidence" /\ call.confidence = 680
    /\ ret.status = "returned" /\ ret.value = Pts(67)

\* C15: the total_weight calculate_weight returns with the default component
\* weights lies in [0,100].
C15_TotalInRange ==
    (call.fn = "calculate_weight" /\ ret.status = "returned")
        => (0 <= ret.value.total_weight /\ ret.value.total_weight <= 100 * 100)

\* calculate_weight returned for confidence 100, the best candle, both higher
\* timeframes agreeing and the best risk record: every scorer at its maximum
C15_Witness ==
    /\ call.fn = "calculate_weight" /\ ret.status = "returned"
    /\ call.ml_confidence = 1000 /\ call.signal_direction = "BUY"
    /\ call.candle_data = BestCandle
    /\ ret.value.components = <<10005, 10000, 8500, 10000, 8500>>
    /\ ret.value.total_weight > 95 * 100

\* AVOID < WEAK < BUY < STRONG_BUY
TierRank(tier) ==
    CASE tier = "AVOID" -> 0
      [] tier = "WEAK" -> 1
      [] tier = "BUY" -> 2
      [] tier = "STRONG_BUY" -> 3

\* C16: _get_recommendation returns STRONG_BUY from 75, BUY from 60, WEAK
\* from 40 and AVOID below; 82 gives STRONG_BUY and 45 gives WEAK; no lower
\* total weight gets a higher tier.
C16_RecommendationSteps ==
    (call.fn = "_get_recommendation" /\ ret.status = "returned") =>
        LET w == call.total_weight
        IN  /\ ret.value = "STRONG_BUY" <=> w >= 75 * Micro
            /\ ret.value = "BUY" <=> (60 * Micro <= w /\ w < 75 * Micro)
            /\ ret.value = "WEAK" <=> (40 * Micro <= w /\ w < 60 * Micro)
            /\ ret.value = "AVOID" <=> w < 40 * Micro
            /\ w = 82 * Micro => ret.value = "STRONG_BUY"
            /\ w = 45 * Micro => ret.value = "WEAK"
            /\ \A b \in TotalWeights :
                  b < w => TierRank(_get_recommendation(b)) <= TierRank(ret.value)

\* _get_recommendation(82) returned STRONG_BUY
C16_Witness ==
    /\ call.fn = "_get_recommendation" /\ call.total_weight = 82 * Micro
    /\ ret.status = "returned" /\ ret.value = "STRONG_BUY"

\* C17: _get_position_multiplier returns 2.0 from 80, 1.5 from 70, 1.0 from
\* 60, 0.75 from 50, 0.5 from 40 and 0.25 below; 82 gives 2.0 and 45 gives
\* 0.5; the value lies in [0.25, 2.0] and no lower total weight gets a
\* higher multiplier.
C17_MultiplierSteps ==
    (call.fn = "_get_position_multiplier" /\ ret.status = "returned") =>
        LET w == call.total_weight
        IN  /\ ret.value = 200 <=> w >= 80 * Micro
            /\ ret.value = 150 <=> (70 * Micro <= w /\ w < 80 * Micro)
            /\ ret.value = 100 <=> (60 * Micro <= w /\ w < 70 * Micro)
            /\ ret.value = 75 <=> (50 * Micro <= w /\ w < 60 * Micro)
            /\ ret.value = 50 <=> (40 * Micro <= w /\ w < 50 * Micro)
            /\ ret.value = 25 <=> w < 40 * Micro
            /\ w = 82 * Micro => ret.value = 200
            /\ w = 45 * Micro => ret.value = 50
            /\ 25 <= ret.value /\ ret.value <= 200
            /\ \A b \in TotalWeights :
                  b < w => _get_position_multiplier(b) <= ret.value

\* _get_position_multiplier(45) returned 0.5
C17_Witness ==
    /\ call.fn = "_get_position_multiplier" /\ call.total_weight = 45 * Micro
    /\ ret.status = "returned" /\ ret.value = 50

\* C18 (as claimed): with EMA12 and EMA21 both present and different, the
\* technical score
\* is 50 plus the RSI and ADX points plus 20 when the trend agrees with the
\* direction and minus 20 when it does not, clamped.
C18_EmaTermSymmetric ==
    (/\ call.fn = "_score_technical_quality" /\ ret.status = "returned"
     /\ call.candle.ema12 \notin {None, Missing}
     /\ call.candle.ema21 \notin {None, Missing}
     /\ call.candle.ema12 # call.candle.ema21) =>
        LET ema_bullish == call.candle.ema12 > call.candle.ema21
            agrees == \/ call.direction = "BUY" /\ ema_bullish
                      \/ call.direction = "SELL" /\ ~ema_bullish
        IN  ret.value =
               Clamp(Pts(50 + RsiTerm(Get(call.candle.rsi, None), call.direction)
                         + AdxTerm(Get(call.candle.adx, None))
                         + (IF agrees THEN 20 ELSE 0 - 20)))

\* C19 (as claimed): _score_mtf_confirmation returns 50 for the empty list,
\* and otherwise 50 plus 15 per agreeing signal minus 10 per disagreeing one
\* plus 10, once, when some H4 or H1 signal agrees, clamped to [0,100].
C19_HigherTfBonusOnce ==
    (call.fn = "_score_mtf_confirmation" /\ ret.status = "returned") =>
        LET signals == call.multi_tf_signals
            agreements == Agreements(call.direction, signals)
            bonus == IF \E i \in 1..Len(signals) :
                           /\ signals[i].granularity \in {"H4", "H1"}
                           /\ signals[i].label = call.direction
                     THEN 10 ELSE 0
        IN  ret.value =
               IF signals = <<>> THEN Pts(50)
               ELSE Clamp(Pts(50 + agreements * 15
                              - (Len(signals) - agreements) * 10 + bonus))

\* C20 (as claimed): every call of calculate_weight returns a result, whatever
\* inputs are missing or null, and in it a scorer all of whose inputs are
\* missing or null scores 50.
C20_MissingInputsTolerated ==
    (call.fn = "calculate_weight" /\ ret.status # "pending") =>
        /\ ret.status = "returned"
        /\ call.ml_confidence = None
              => ret.value.components[1] = 50 * 100
        /\ call.candle_data \in {EmptyCandle, NullCandle}
              => /\ ret.value.components[2] = 50 * 100
                 /\ ret.value.components[3] = 50 * 100
        /\ (/\ call.candle_data \in {EmptyCandle, NullCandle}
            /\ call.risk_metrics \in
                  {<<>>, <<EmptyMetrics>>,
                   <<[current_drawdown_pct |-> None, symbol_win_rate |-> None]>>})
              => ret.value.components[5] = 50 * 100

EnoughQualify(x) == NRows(QualifiedSignals(weighted, x)) >= MinQualified

\* C22 (as claimed): in the search of optimize_signal_weights a vector under
\* which fewer than 10 signals qualify gets a worse (higher) objective value
\* than every vector under which at least 10 qualify, and the search returns
\* no such vector when it evaluated a vector under which at least 10 qualify.
C22_TooFewSignalsPenalized ==
    /\ \A i, j \in 1..Len(osw.results) :
          (~EnoughQualify(osw.results[i].x) /\ EnoughQualify(osw.results[j].x))
            => osw.results[i].fun > osw.results[j].fun
    /\ (/\ osw.optimal # <<>>
        /\ \E i \in 1..Len(osw.results) : EnoughQualify(osw.results[i].x))
          => EnoughQualify(osw.optimal[1].x)

\* the day's realized losses leave room, the hour is a trading hour, and the
\* trades open are fewer than the cap
MayTrade ==
    /\ is_trading_hours
    /\ oanda.open_trades < max_concurrent_trades
    /\ oanda.realized_loss < max_daily_loss
    /\ gen.daily_signals < max_daily_trades

\* C23 (as claimed): once the losses realized today have reached
\* max_daily_loss, the check of the generator does not let a signal be
\* generated.
C23_DailyLossLimitEnforced ==
    [][(gen.pc = "check" /\ oanda.realized_loss >= max_daily_loss)
          => gen'.pc # "generate"]_vars

\* C24 (as claimed): a generator held back by the cap on concurrent trades,
\* at a time when fewer trades than the cap are open, the hour is a trading
\* hour and no daily limit is reached, goes on to generate a signal (unless
\* one of these conditions ends first).
C24_ConcurrentCapLifts ==
    (/\ gen.pc = "sleep" /\ gen.reason = "Max concurrent trades"
     /\ MayTrade) ~> (gen.pc = "generate" \/ ~MayTrade)

\* C25 (as claimed): when enrich_signals_auto or enrich_signals_ultra_fast
\* has run to its end on a table none of whose labeled rows can raise an
\* error, and no error occurred, every labeled row has a weight, a
\* recommendation and a multiplier.
C25_PagingEnrichesAll ==
    (/\ enrich.script \in {"auto", "ultra_fast"}
     /\ enrich.pc = "done" /\ ~enrich.errors
     /\ \A i \in DOMAIN signal_rows :
           signal_rows[i].is_labeled => signal_rows[i].label_confidence # None)
      =>
        \A i \in DOMAIN signal_rows :
            signal_rows[i].is_labeled =>
               /\ signal_rows[i].signal_weight # None
               /\ signal_rows[i].signal_recommendation # "None"
               /\ signal_rows[i].position_multiplier # None

\* C26 (as claimed): when two runs of monthly_retrain, and no other writer,
\* have both saved their result, exactly one row is active.
C26_ConcurrentRunsOneActive ==
    (/\ \A r \in Runs : mr[r].pc = "done" /\ mr[r].exit = "end"
     /\ pop.pc = "idle")
        => Cardinality(ActiveRows) = 1

\* C27 (as claimed): when the insert of a run of monthly_retrain fails after
\* its update deactivated the one active row, and nothing else wrote to the
\* table, a row is still active.
C27_ActivationAllOrNothing ==
    \A r \in Runs :
        (/\ mr[r].pc = "done" /\ mr[r].exit = "APIError" /\ mr[r].updated = 1
         /\ \A q \in Runs \ {r} : mr[q].pc = "idle"
         /\ pop.pc = "idle")
            => ActiveRows # {}

\* C28 (as claimed): the recommendation and the multiplier the SQL function
\* returns are those _get_recommendation and _get_position_multiplier give
\* for the weight it returns; at 82 the multiplier is 2.0.
C28_SqlAgreesWithCalculator ==
    (call.fn = "sql_calculate_signal_weight" /\ ret.status = "returned") =>
        /\ ret.value.recommendation = _get_recommendation(ret.value.weight)
        /\ ret.value.multiplier = _get_position_multiplier(ret.value.weight)
        /\ ret.value.weight = 82 * Micro => ret.value.multiplier = 200

\* C29 (as claimed): the recommendation and the multiplier of a result of
\* calculate_weight are those the step functions give for the total_weight
\* the result carries (rounded to two decimals).
C29_TiersOfReturnedTotal ==
    (call.fn = "calculate_weight" /\ ret.status = "returned") =>
        /\ ret.value.recommendation =
              _get_recommendation(ret.value.total_weight * Unit)
        /\ ret.value.position_size_multiplier =
              _get_position_multiplier(ret.value.total_weight * Unit)

\* C30 (as claimed): a run of enrich_signals_with_weights comes to its end.
C30_InteractiveEnrichmentEnds ==
    (enrich.script = "with_weights") ~> (enrich.pc = "done")

====
